---- MODULE Spec2Model ----
(***************************************************************************)
(* Model of the audio intake pipeline of metadata-editor: the intake       *)
(* scanner (app/scanner.py), the review API (app/api.py), the persistence  *)
(* layer (app/database.py), the tag codec (app/metadata_processor.py) and  *)
(* the library mover (app/mover.py).                                       *)
(*                                                                         *)
(* Text is a sequence of one-character strings, so that strip(), len()     *)
(* and sanitize_filename() are computed and not assumed.  A path is text   *)
(* too: its root, then "/"-separated components.  Python's None is the     *)
(* one-element sequence None, which no text of the model equals.           *)
(***************************************************************************)
EXTENDS Integers, Sequences, FiniteSets, TLC

\* ------------------------------------------------------------------ bounds
\* The file modification stamps the external writer may produce (st_mtime).
MaxVer == 1
\* How many times one record's updated_at may advance.
MaxStamp == 3
\* How many files the library may hold.
MaxLibrary == 2
\* How many library scan threads may be alive.
MaxWorkers == 2
\* How many lines a response of the inference service may have.
MaxLines == 3
\* How many characters a name given to sanitize_filename may have.
MaxName == 3
\* How many candidates a ranking may be given.
MaxCandidates == 3
\* How many intake scanner threads may be alive at once.
MaxLoops == 3

\* ------------------------------------------------------------------- text
None == <<"None">>
NoneInt == -1

Whitespace == {" ", "\t", "\n"}

RECURSIVE LStrip(_, _)
LStrip(s, chars) ==
    IF s # <<>> /\ Head(s) \in chars THEN LStrip(Tail(s), chars) ELSE s

RECURSIVE RStrip(_, _)
RStrip(s, chars) ==
    IF s # <<>> /\ s[Len(s)] \in chars
    THEN RStrip(SubSeq(s, 1, Len(s) - 1), chars)
    ELSE s

\* str.strip(): whitespace off both ends.
Strip(s) == RStrip(LStrip(s, Whitespace), Whitespace)

\* Python truthiness of an Optional[str]: neither None nor "".
Truthy(s) == s # None /\ s # <<>>

\* n copies of "x": a text of length n.
Filler(n) == [i \in 1..n |-> "x"]

\* -------------------------------------------------------------- constants
IllegalChars == {"<", ">", ":", "\"", "/", "\\", "|", "?", "*"}
Untitled == <<"u", "n", "t", "i", "t", "l", "e", "d">>
\* config.ALBUM_NAME, transliterated.
ALBUM_NAME == <<"m", "n", "w", "3", "a", "t">>
\* The reserved "other" genre of the review form, transliterated.
OtherGenre == <<"o", "k", "h", "r", "a", ".", ".", ".">>
MaxTitleLen == 300
MaxGenreLen == 200

INCOMING_ROOT == <<"/incoming">>
NAVIDROME_ROOT == <<"/music">>
ARTWORK_DIR == <<"/data", "/", "artwork">>
\* The attributes of class Config that the code reads and config.py does not
\* define: None stands for the AttributeError of reading config.STAGING_DIR.
Config == [STAGING_DIR |-> None]
\* The configuration test_critical_fixes.py asserts: a staging root whose
\* name ends in "staging".
TestedConfig == [STAGING_DIR |-> <<"/data", "/", "staging">>]

\* A sanitizer that trims before it removes the illegal characters.
sanitize_filename_TrimFirst(filename) ==
    LET trimmed == RStrip(LStrip(filename, {".", " "}), {".", " "})
        sanitized == SelectSeq(trimmed, LAMBDA c : c \notin IllegalChars)
    IN  IF sanitized = <<>> THEN Untitled ELSE sanitized

\* MetadataProcessor.sanitize_filename
sanitize_filename(filename) ==
    LET removed == SelectSeq(filename, LAMBDA c : c \notin IllegalChars)
        sanitized == RStrip(LStrip(removed, {".", " "}), {".", " "})
    IN  IF sanitized = <<>> THEN Untitled ELSE sanitized

\* ------------------------------------------------------------------ codec
\* What mutagen.File() makes of a file: the tag families the code handles
\* (MP4 atoms, ID3 frames, Vorbis comments in FLAC and in OGG Vorbis), "Opus"
\* for a container mutagen opens but the code has no branch for (an .ogg
\* holding Opus or Speex), "Unknown" for a file mutagen does not recognise
\* (File() returns None).
Families == {"MP4", "ID3", "FLAC", "OGG"}
VorbisFamilies == {"FLAC", "OGG"}
Formats == Families \cup {"Opus", "Unknown"}

\* A number/total pair as stored: v is the number, t the total; NoneInt for
\* an absent part (ID3 and Vorbis store the text "v" or "v/t").
NoPair == [v |-> NoneInt, t |-> NoneInt]

\* An audio file with no tags.
BlankAudio(fmt, ver) ==
    [fmt |-> fmt, title |-> None, artist |-> None, album |-> None,
     album_artist |-> None, genre |-> None, year |-> NoneInt,
     track |-> NoPair, disc |-> NoPair, art |-> FALSE, ver |-> ver]

\* The stat of a file the program rewrote: a modification time no external
\* write of the model produced.
Rewritten == MaxVer + 1

\* int(str(value).strip()[:4]) of a non-negative number: its first four digits.
RECURSIVE FirstFourDigits(_)
FirstFourDigits(y) == IF y >= 10000 THEN FirstFourDigits(y \div 10) ELSE y

\* MetadataProcessor._parse_year
_parse_year(value) == IF value = NoneInt THEN NoneInt ELSE FirstFourDigits(value)

\* The number read from a stored pair: ID3 text is split at "/", an MP4 pair
\* gives its first element, a Vorbis comment goes to int() whole.
ReadNumber(fmt, pair) ==
    IF pair.v = NoneInt THEN NoneInt
    ELSE IF fmt \in VorbisFamilies /\ pair.t # NoneInt THEN NoneInt
    ELSE pair.v

\* MetadataProcessor.read_metadata
read_metadata(c) ==
    IF c.fmt \in Families
    THEN [title |-> c.title, artist |-> c.artist, album |-> c.album,
          album_artist |-> c.album_artist, genre |-> c.genre,
          year |-> _parse_year(c.year),
          track_number |-> ReadNumber(c.fmt, c.track),
          disc_number |-> ReadNumber(c.fmt, c.disc),
          has_artwork |-> IF c.fmt = "OGG" THEN FALSE ELSE c.art]
    ELSE [title |-> None, artist |-> None, album |-> None,
          album_artist |-> None, genre |-> None, year |-> NoneInt,
          track_number |-> NoneInt, disc_number |-> NoneInt,
          has_artwork |-> FALSE]

\* The arguments of a write: None / NoneInt for a field not supplied.
NoFields ==
    [title |-> None, artist |-> None, album |-> None, album_artist |-> None,
     genre |-> None, year |-> NoneInt, track_number |-> NoneInt,
     disc_number |-> NoneInt]

\* str(actual_value or "").strip()
TextOrEmpty(s) == IF s = None THEN <<>> ELSE Strip(s)

\* A re-read that compares the text fields only.
_verify_written_metadata_TextOnly(c, expected) ==
    \A k \in {"title", "artist", "album", "album_artist", "genre"} :
        expected[k] # None => TextOrEmpty(read_metadata(c)[k]) = Strip(expected[k])

\* MetadataProcessor._verify_written_metadata
_verify_written_metadata(c, expected) ==
    LET actual == read_metadata(c)
    IN  /\ \A k \in {"title", "artist", "album", "album_artist", "genre"} :
             expected[k] # None => TextOrEmpty(actual[k]) = Strip(expected[k])
        /\ \A k \in {"year", "track_number", "disc_number"} :
             expected[k] # NoneInt => actual[k] = expected[k]

\* A write that stores the number alone, whatever the family.
WritePair_DroppingTotal(fmt, old, n) == [v |-> n, t |-> NoneInt]

\* The pair stored when number n is written over `old`: MP4 keeps the old
\* total (0 when there is none), the text families store str(n).
WritePair(fmt, old, n) ==
    IF fmt = "MP4"
    THEN [v |-> n, t |-> IF old.t = NoneInt THEN 0 ELSE old.t]
    ELSE [v |-> n, t |-> NoneInt]

\* Tag assignments that replace the tags by the arguments.
SetSuppliedTags_Replacing(c, f) ==
    IF c.fmt \notin Families THEN c
    ELSE [c EXCEPT !.title = f.title, !.artist = f.artist, !.album = f.album,
                   !.album_artist = f.album_artist, !.genre = f.genre,
                   !.year = f.year,
                   !.track = IF f.track_number # NoneInt
                             THEN WritePair(c.fmt, @, f.track_number) ELSE NoPair,
                   !.disc = IF f.disc_number # NoneInt
                            THEN WritePair(c.fmt, @, f.disc_number) ELSE NoPair]

\* The tag assignments of update_metadata_safe: every field that is not None.
SetSuppliedTags(c, f) ==
    IF c.fmt \notin Families THEN c
    ELSE [c EXCEPT
            !.title = IF f.title # None THEN f.title ELSE @,
            !.artist = IF f.artist # None THEN f.artist ELSE @,
            !.album = IF f.album # None THEN f.album ELSE @,
            !.album_artist = IF f.album_artist # None THEN f.album_artist ELSE @,
            !.genre = IF f.genre # None THEN f.genre ELSE @,
            !.year = IF f.year # NoneInt THEN f.year ELSE @,
            !.track = IF f.track_number # NoneInt
                      THEN WritePair(c.fmt, @, f.track_number) ELSE @,
            !.disc = IF f.disc_number # NoneInt
                     THEN WritePair(c.fmt, @, f.disc_number) ELSE @]

\* MetadataProcessor.update_metadata_safe on a file of content c.  saveFails:
\* copying to the temporary file, opening it or audio.save() raises.  The
\* result is what the call returns and the content of audio_path afterwards.
update_metadata_safe(c, f, saveFails) ==
    IF saveFails \/ c.fmt = "Unknown"
    THEN [ok |-> FALSE, content |-> c]
    ELSE LET temp == [SetSuppliedTags(c, f) EXCEPT !.ver = Rewritten]
         IN  \* shutil.move(temp_path, audio_path) comes before the re-read
             [ok |-> _verify_written_metadata(temp, f), content |-> temp]

\* The tag assignments of apply_metadata: title, artist, album and album
\* artist always, the others when truthy.
SetAppliedTags(c, f) ==
    IF c.fmt \notin Families THEN c
    ELSE [c EXCEPT
            !.title = f.title, !.artist = f.artist, !.album = f.album,
            !.album_artist = f.artist,
            !.genre = IF Truthy(f.genre) THEN f.genre ELSE @,
            !.year = IF f.year \notin {NoneInt, 0} THEN f.year ELSE @,
            !.track = IF f.track_number \notin {NoneInt, 0}
                      THEN WritePair(c.fmt, @, f.track_number) ELSE @,
            !.disc = IF f.disc_number \notin {NoneInt, 0}
                     THEN WritePair(c.fmt, @, f.disc_number) ELSE @]

\* MetadataProcessor.apply_metadata: writes audio_path in place.
apply_metadata(c, f, saveFails) ==
    IF c.fmt = "Unknown" \/ saveFails
    THEN [ok |-> FALSE, content |-> c]
    ELSE LET written == [SetAppliedTags(c, f) EXCEPT !.ver = Rewritten]
             expected == [f EXCEPT !.album_artist = f.artist]
         IN  [ok |-> _verify_written_metadata(written, expected),
              content |-> written]

\* An embedding whose failure leaves a file that mutagen no longer opens.
embed_artwork_safe_Truncating(c, saveFails) ==
    IF saveFails \/ c.fmt = "Unknown"
    THEN [ok |-> FALSE, content |-> [c EXCEPT !.fmt = "Unknown"]]
    ELSE LET temp == [c EXCEPT !.art = IF c.fmt \in {"MP4", "ID3", "FLAC"} THEN TRUE ELSE @,
                               !.ver = Rewritten]
         IN  [ok |-> read_metadata(temp).has_artwork, content |-> temp]

\* MetadataProcessor.embed_artwork_safe: MP4, ID3 and FLAC take the picture,
\* OGG Vorbis and the unhandled containers take none; the temporary copy
\* replaces the file, then the re-read decides the result.
embed_artwork_safe(c, saveFails) ==
    IF saveFails \/ c.fmt = "Unknown"
    THEN [ok |-> FALSE, content |-> c]
    ELSE LET temp == [c EXCEPT !.art = IF c.fmt \in {"MP4", "ID3", "FLAC"} THEN TRUE ELSE @,
                               !.ver = Rewritten]
         IN  [ok |-> read_metadata(temp).has_artwork, content |-> temp]

\* Some tag is stored in the file (audio.tags is truthy).
HasTags(c) ==
    \/ \E k \in {"title", "artist", "album", "album_artist", "genre"} : c[k] # None
    \/ c.year # NoneInt \/ c.track # NoPair \/ c.disc # NoPair

\* MetadataProcessor.extract_artwork: TRUE when a cover was written out.  The
\* FLAC branch is reached only when audio.tags is truthy.
extract_artwork(c) ==
    \/ c.fmt \in {"MP4", "ID3"} /\ c.art
    \/ c.fmt = "FLAC" /\ c.art /\ HasTags(c)

\* ------------------------------------------------------------------ paths
\* dir / name
Join(dir, name) == dir \o <<"/">> \o name

\* The index of the last "/" of a path.
LastSlash(p) == CHOOSE i \in 1..Len(p) : p[i] = "/" /\ \A j \in (i + 1)..Len(p) : p[j] # "/"

\* Path.parent, Path.name, Path.suffix (the extension is one element, such as
\* ".mp3") and Path.stem.
Parent(p) == SubSeq(p, 1, LastSlash(p) - 1)
Name(p) == SubSeq(p, LastSlash(p) + 1, Len(p))
Suffix(p) == p[Len(p)]
Stem(p) == SubSeq(Name(p), 1, Len(Name(p)) - 1)

\* Path.is_relative_to
is_relative_to(p, root) == Len(p) >= Len(root) /\ SubSeq(p, 1, Len(root)) = root

\* shutil.rmtree(dir): every file below dir goes.
rmtree(fs, dir) ==
    [q \in {r \in DOMAIN fs : ~is_relative_to(r, dir \o <<"/">>)} |-> fs[q]]

\* Path.unlink
unlink(fs, p) == [q \in DOMAIN fs \ {p} |-> fs[q]]

\* A file written at p.
WriteFile(fs, p, c) == [q \in DOMAIN fs \cup {p} |-> IF q = p THEN c ELSE fs[q]]

\* FileScanner.parse_filename: the stem is split at the first "###" (one
\* element of the name) and both parts are stripped; None when there is no
\* separator or a part is empty.
parse_filename(name) ==
    LET stem == SubSeq(name, 1, Len(name) - 1)
        seps == {i \in 1..Len(stem) : stem[i] = "###"}
    IN  IF seps = {} THEN None
        ELSE LET i == CHOOSE k \in seps : \A j \in seps : k <= j
                 video_title == Strip(SubSeq(stem, 1, i - 1))
                 channel == Strip(SubSeq(stem, i + 1, Len(stem)))
             IN  IF video_title = <<>> \/ channel = <<>> THEN None
                 ELSE <<video_title, channel>>

\* FileScanner.compute_file_identifier: the hash of "path|size|mtime", taken
\* as collision free, so the text itself.
compute_file_identifier(p, c) == p \o <<"|", ToString(c.ver)>>

\* ------------------------------------------------------------ persistence
Ok == <<"success">>
Unknown == <<"Unknown">>
ProcessingError == <<"Processing error: 'Config' object has no attribute 'STAGING_DIR'">>
CopyError == <<"Processing error: copy to staging failed">>
ParseFailed == <<"Failed to parse filename - please edit manually">>
DetectionFailed == <<"Metadata detection failed">>
TagsFailed == <<"Failed to apply metadata tags - please check file">>
ApplyFailed == <<"Failed to apply metadata">>
MoveFailed == <<"Failed to move file">>
DatabaseError == <<"(sqlite3.OperationalError) database is locked">>

\* A query that leaves the rows in error out of its result.
PendingItemsWhere_NotInError(db, column, value) ==
    {i \in DOMAIN db : db[i][column] = value /\ db[i].status # "error"}

\* The ids of the rows of pending_items whose column equals value:
\* db.query(PendingItem).filter(PendingItem.<column> == value).
PendingItemsWhere(db, column, value) == {i \in DOMAIN db : db[i][column] = value}

\* Query.first(): a row of the result, None (0) when it is empty.
First(ids) == IF ids = {} THEN 0 ELSE CHOOSE i \in ids : \A j \in ids : i <= j

\* DatabaseManager.get_item_by_identifier
get_item_by_identifier(db, file_identifier) ==
    First(PendingItemsWhere(db, "file_identifier", file_identifier))

\* DatabaseManager.file_already_processed
file_already_processed(db, file_path) ==
    First(PendingItemsWhere(db, "original_path", file_path)) # 0

\* The id SQLite gives a new row of an INTEGER PRIMARY KEY table: one more
\* than the largest id in the table.
NewId(db) == IF DOMAIN db = {} THEN 1 ELSE 1 + CHOOSE i \in DOMAIN db : \A j \in DOMAIN db : j <= i

\* DatabaseManager.create_pending_item; `row` holds the arguments (status None
\* when not passed).  Returns the table.
create_pending_item(db, row) ==
    IF Truthy(row.file_identifier)
       /\ First(PendingItemsWhere(db, "file_identifier", row.file_identifier)) # 0
    THEN db
    ELSE IF First(PendingItemsWhere(db, "original_path", row.original_path)) # 0
    THEN db
    ELSE LET status ==
                 IF row.status # "None" THEN row.status
                 ELSE IF Truthy(row.error_message) /\ Truthy(row.raw_gemini_response)
                      THEN "needs_manual"
                 ELSE IF Truthy(row.error_message) THEN "error"
                 ELSE "pending"
             item == [original_path |-> row.original_path,
                      current_path |-> row.current_path,
                      video_title |-> row.video_title,
                      channel |-> row.channel,
                      inferred_title |-> row.inferred_title,
                      inferred_artist |-> row.inferred_artist,
                      current_title |-> row.inferred_title,
                      current_artist |-> row.inferred_artist,
                      genre |-> None,
                      extension |-> row.extension,
                      artwork_path |-> row.artwork_path,
                      status |-> status,
                      error_message |-> row.error_message,
                      file_identifier |-> row.file_identifier,
                      raw_gemini_response |-> row.raw_gemini_response,
                      updated_at |-> 0]
             id == NewId(db)
         IN  [i \in DOMAIN db \cup {id} |-> IF i = id THEN item ELSE db[i]]

\* An update that also puts the row back to pending.
update_item_ResettingStatus(db, item_id, title, artist, genre) ==
    [db EXCEPT ![item_id] =
        [@ EXCEPT !.current_title = IF title # None THEN title ELSE @,
                  !.current_artist = IF artist # None THEN artist ELSE @,
                  !.genre = IF genre # None THEN genre ELSE @,
                  !.status = IF @ = "done" THEN @ ELSE "pending",
                  !.error_message = None,
                  !.updated_at = @ + 1]]

\* DatabaseManager.update_item (the row exists); None leaves a field alone.
update_item(db, item_id, title, artist, genre) ==
    [db EXCEPT ![item_id] =
        [@ EXCEPT !.current_title = IF title # None THEN title ELSE @,
                  !.current_artist = IF artist # None THEN artist ELSE @,
                  !.genre = IF genre # None THEN genre ELSE @,
                  !.updated_at = @ + 1]]

\* DatabaseManager.update_item_error with the default status.
update_item_error(db, item_id, error_message) ==
    IF item_id \notin DOMAIN db THEN db
    ELSE [db EXCEPT ![item_id] =
            [@ EXCEPT !.status = "error", !.error_message = error_message,
                      !.updated_at = @ + 1]]

\* mark_as_done without the assignment to current_path.
mark_as_done_KeepingPath(db, item_id, new_path) ==
    IF item_id \notin DOMAIN db THEN db
    ELSE [db EXCEPT ![item_id] =
            [@ EXCEPT !.status = "done", !.error_message = None,
                      !.updated_at = @ + 1]]

\* DatabaseManager.mark_as_done
mark_as_done(db, item_id, new_path) ==
    IF item_id \notin DOMAIN db THEN db
    ELSE [db EXCEPT ![item_id] =
            [@ EXCEPT !.status = "done", !.current_path = new_path,
                      !.error_message = None, !.updated_at = @ + 1]]

\* ------------------------------------------------------------------ mover
\* f"{safe_title}{extension}" and f"{safe_title} ({counter}){extension}"
DestFilename(safe_title, counter, extension) ==
    IF counter = 0 THEN safe_title \o <<extension>>
    ELSE safe_title \o <<" (", ToString(counter), ")">> \o <<extension>>

\* A loop that never runs: the counter it was given.
FirstFree_Unchecked(fs, album_dir, safe_title, extension, counter) == counter

\* The while loop of build_destination_path: the first counter, from
\* `counter` on, whose name is free in album_dir.
RECURSIVE FirstFree(_, _, _, _, _)
FirstFree(fs, album_dir, safe_title, extension, counter) ==
    IF Join(album_dir, DestFilename(safe_title, counter, extension)) \in DOMAIN fs
    THEN FirstFree(fs, album_dir, safe_title, extension, counter + 1)
    ELSE counter

\* The album directory of an artist.
AlbumDir(artist) ==
    Join(Join(NAVIDROME_ROOT, sanitize_filename(artist)), sanitize_filename(ALBUM_NAME))

\* FileMover.build_destination_path
build_destination_path(fs, artist, title, extension) ==
    LET safe_title == sanitize_filename(title)
        album_dir == AlbumDir(artist)
    IN  Join(album_dir,
             DestFilename(safe_title, FirstFree(fs, album_dir, safe_title, extension, 0),
                          extension))

\* A preview that gives the plain name, whether it is taken or not.
get_destination_preview_PlainName(fs, artist, title, extension, writable) ==
    LET destination == Join(AlbumDir(artist),
                            DestFilename(sanitize_filename(title), 0, extension))
    IN  [destination_path |-> destination,
         destination_dir |-> Parent(destination),
         navidrome_root |-> NAVIDROME_ROOT,
         navidrome_root_writable |-> writable.root,
         destination_parent_writable |-> writable.parent]

\* FileMover.get_destination_preview.  writable: what os.access answers for
\* the library root and for the nearest existing ancestor of the destination.
get_destination_preview(fs, artist, title, extension, writable) ==
    LET destination == build_destination_path(fs, artist, title, extension)
    IN  [destination_path |-> destination,
         destination_dir |-> Parent(destination),
         navidrome_root |-> NAVIDROME_ROOT,
         navidrome_root_writable |-> writable.root,
         destination_parent_writable |-> writable.parent]

\* FileMover.move_to_navidrome: the destination (None when mkdir or the move
\* raised) and the files afterwards.
move_to_navidrome(fs, source_path, artist, title, extension, moveFails) ==
    LET dest_path == build_destination_path(fs, artist, title, extension)
    IN  IF moveFails \/ source_path \notin DOMAIN fs
        THEN [new_path |-> None, files |-> fs]
        ELSE [new_path |-> dest_path,
              files |-> WriteFile(unlink(fs, source_path), dest_path, fs[source_path])]

\* ---------------------------------------------------------------- scanner
\* The arguments of one create_pending_item call of process_file.
Row(original_path, current_path, video_title, channel, inferred_title, inferred_artist, artwork_path, status, error_message, file_identifier, raw_gemini_response) ==
    [original_path |-> original_path, current_path |-> current_path,
     video_title |-> video_title, channel |-> channel,
     extension |-> Suffix(original_path),
     inferred_title |-> inferred_title, inferred_artist |-> inferred_artist,
     artwork_path |-> artwork_path, status |-> status,
     error_message |-> error_message, file_identifier |-> file_identifier,
     raw_gemini_response |-> raw_gemini_response]

\* hashlib.md5(file_identifier)[:8], taken as collision free.
Hash8(file_identifier) == SelectSeq(file_identifier, LAMBDA c : c # "/")

\* a or b of two Optional[str]
OrElse(a, b) == IF Truthy(a) THEN a ELSE b

\* An embedded value that is never seen.
StripOrNone_Dropped(x) == None

\* x.strip() if x else None
StripOrNone(x) == IF Truthy(x) /\ Strip(x) # <<>> THEN Strip(x) ELSE None

\* process_file from the copy into staging on (scanner.py lines 129-265), for
\* a file that is new and a staging root that exists.
StagedOutcome(fs, db, p, fid, env, staging_dir, staged_path) ==
    LET copied == WriteFile(fs, staged_path, fs[p])
        artwork_file == Join(ARTWORK_DIR, Hash8(fid) \o <<"_">> \o Stem(p) \o <<".jpg">>)
        extracted == extract_artwork(fs[p])
        fs1 == IF extracted
               THEN WriteFile(copied, artwork_file, BlankAudio("Image", 0))
               ELSE copied
        artwork_path == IF extracted THEN artwork_file ELSE None
        existing == read_metadata(fs[p])
        parsed == parse_filename(Name(p))
    IN  IF parsed = None
        THEN [files |-> fs1,
              items |-> create_pending_item(db,
                  Row(p, staged_path, Stem(p), Unknown,
                      OrElse(existing.title, Stem(p)), OrElse(existing.artist, <<>>),
                      artwork_path, "needs_manual", ParseFailed, fid, None))]
        ELSE
        LET video_title == parsed[1]
            channel == parsed[2]
            existing_title == StripOrNone(existing.title)
            existing_artist == StripOrNone(existing.artist)
            asked == existing_title = None \/ existing_artist = None
            title == IF asked THEN OrElse(existing_title, StripOrNone(env.gemini.title))
                     ELSE existing_title
            artist == IF asked THEN OrElse(existing_artist, StripOrNone(env.gemini.artist))
                      ELSE existing_artist
            raw_response == IF asked THEN env.gemini.raw ELSE <<>>
        IN  IF ~Truthy(title) \/ ~Truthy(artist)
            THEN [files |-> fs1,
                  items |-> create_pending_item(db,
                      Row(p, staged_path, video_title, channel,
                          OrElse(title, video_title), OrElse(artist, channel),
                          artwork_path, "needs_manual", DetectionFailed, fid,
                          raw_response))]
            ELSE
            LET applied == apply_metadata(fs[p],
                               [NoFields EXCEPT !.title = title, !.artist = artist,
                                   !.album = title, !.genre = existing.genre,
                                   !.year = existing.year,
                                   !.track_number = existing.track_number,
                                   !.disc_number = existing.disc_number],
                               env.saveFails)
                fs2 == WriteFile(fs1, staged_path, applied.content)
            IN  IF ~applied.ok
                THEN [files |-> fs2,
                      items |-> create_pending_item(db,
                          Row(p, staged_path, video_title, channel, title, artist,
                              artwork_path, "needs_manual", TagsFailed, fid,
                              raw_response))]
                ELSE [files |-> fs2,
                      items |-> create_pending_item(db,
                          Row(p, staged_path, video_title, channel, title, artist,
                              artwork_path, "pending", None, fid, raw_response))]

\* FileScanner.process_file(p): the files and the table afterwards.
process_file(cfg, fs, db, p, env) ==
    IF p \notin DOMAIN fs
    THEN \* stat() raises, and raises again in the except branch
         [files |-> fs, items |-> db]
    ELSE
    LET file_identifier == compute_file_identifier(p, fs[p])
    IN  IF get_item_by_identifier(db, file_identifier) # 0
        THEN [files |-> fs, items |-> db]
        ELSE IF file_already_processed(db, p)
        THEN [files |-> fs, items |-> db]
        ELSE IF cfg.STAGING_DIR = None
        THEN \* config.STAGING_DIR raises before staged_path is set: the except
             \* branch records the intake path as current_path
             [files |-> fs,
              items |-> create_pending_item(db,
                  Row(p, p, Stem(p), Unknown, None, None, None, "error",
                      ProcessingError, file_identifier, None))]
        ELSE
        LET staging_dir == Join(cfg.STAGING_DIR, <<env.uuid>>)
            staged_path == Join(staging_dir, Name(p))
        IN  IF env.copyFails
            THEN \* except branch with staged_path set, then rmtree(staging_dir)
                 [files |-> rmtree(fs, staging_dir),
                  items |-> create_pending_item(db,
                      Row(p, staged_path, Stem(p), Unknown, None, None, None,
                          "error", CopyError, file_identifier, None))]
            ELSE StagedOutcome(fs, db, p, file_identifier, env, staging_dir, staged_path)

\* The files once process_file has copied p into staging and extracted its
\* cover (scanner.py lines 126-139), which is where it stands when it calls
\* the inference service.
StagedFiles(cfg, fs, p, env) ==
    LET staged_path == Join(Join(cfg.STAGING_DIR, <<env.uuid>>), Name(p))
        artwork_file == Join(ARTWORK_DIR,
                             Hash8(compute_file_identifier(p, fs[p])) \o <<"_">>
                             \o Stem(p) \o <<".jpg">>)
        copied == WriteFile(fs, staged_path, fs[p])
    IN  IF extract_artwork(fs[p])
        THEN WriteFile(copied, artwork_file, BlankAudio("Image", 0))
        ELSE copied

\* A loop that a vanished file ends: the error of stat() reaches scan_loop,
\* whose handler abandons the listing.
scan_loop_rest_AbortOnMissing(fs, queue, p) ==
    IF p \notin DOMAIN fs THEN {} ELSE queue \ {p}

\* scan_loop, the for loop over the listing: what is left of it after
\* process_file(p), which catches every exception of its body.
scan_loop_rest(fs, queue, p) == queue \ {p}

\* How many times process_file(p) calls gemini_client.infer_metadata: once,
\* when the file is new, was copied into staging, has a name of the expected
\* shape and lacks an embedded title or artist.
InferenceCalls(cfg, fs, db, p, env) ==
    IF /\ p \in DOMAIN fs
       /\ get_item_by_identifier(db, compute_file_identifier(p, fs[p])) = 0
       /\ ~file_already_processed(db, p)
       /\ cfg.STAGING_DIR # None
       /\ ~env.copyFails
       /\ parse_filename(Name(p)) # None
       /\ \/ StripOrNone(read_metadata(fs[p]).title) = None
          \/ StripOrNone(read_metadata(fs[p]).artist) = None
    THEN 1 ELSE 0

\* -------------------------------------------------------- artist matching
\* The characters of artist names: the letters a, b and c, "A" for a letter
\* that lower() or the table of Arabic variants folds (into "a"), "~" for the
\* tatweel and the diacritics, which are removed, "!" for a character that is
\* neither a letter nor a number, and the space.
ArtistChars == {"a", "b", "c", "A", "~", "!", " "}
Removed == {"~"}
Fold(c) == IF c = "A" THEN "a" ELSE c
LettersAndNumbers == {"a", "b", "c"}

\* The code point order of the characters.
CharCode(c) ==
    IF c = " " THEN 32 ELSE IF c = "!" THEN 33 ELSE IF c = "A" THEN 65
    ELSE IF c = "a" THEN 97 ELSE IF c = "b" THEN 98 ELSE IF c = "c" THEN 99
    ELSE 126

\* Python's < on str.
RECURSIVE StrLess(_, _)
StrLess(x, y) ==
    IF y = <<>> THEN FALSE
    ELSE IF x = <<>> THEN TRUE
    ELSE IF Head(x) # Head(y) THEN CharCode(Head(x)) < CharCode(Head(y))
    ELSE StrLess(Tail(x), Tail(y))

\* _WHITESPACE_RE.sub(" ", text): runs of spaces become one space.
RECURSIVE CollapseSpaces(_)
CollapseSpaces(text) ==
    IF Len(text) < 2 THEN text
    ELSE IF text[1] = " " /\ text[2] = " " THEN CollapseSpaces(Tail(text))
    ELSE <<text[1]>> \o CollapseSpaces(Tail(text))

\* normalize_artist_name
normalize_artist_name(value) ==
    LET stripped == Strip(value)
        lowered == [i \in 1..Len(stripped) |-> Fold(stripped[i])]
        kept == SelectSeq(lowered, LAMBDA c : c \notin Removed)
        spaced == [i \in 1..Len(kept) |->
                      IF kept[i] \in LettersAndNumbers THEN kept[i] ELSE " "]
    IN  Strip(CollapseSpaces(spaced))

\* normalized.split(" ") without the empty parts
RECURSIVE SplitTokens(_, _)
SplitTokens(text, token) ==
    IF text = <<>> THEN (IF token = <<>> THEN <<>> ELSE <<token>>)
    ELSE IF Head(text) = " "
    THEN (IF token = <<>> THEN <<>> ELSE <<token>>) \o SplitTokens(Tail(text), <<>>)
    ELSE SplitTokens(Tail(text), Append(token, Head(text)))

\* "".join(tokens)
RECURSIVE JoinTokens(_)
JoinTokens(tokens) ==
    IF tokens = <<>> THEN <<>> ELSE Head(tokens) \o JoinTokens(Tail(tokens))

\* build_artist_name_key
build_artist_name_key(value) ==
    LET original == Strip(value)
        normalized == normalize_artist_name(original)
        tokens == SplitTokens(normalized, <<>>)
    IN  [original |-> original, normalized |-> normalized, tokens |-> tokens,
         unspaced |-> JoinTokens(tokens)]

\* The size of the matching blocks of SequenceMatcher(None, x, y): the
\* longest common block, the earliest in x and then in y among the longest,
\* and the same to the left and to the right of it.
RECURSIVE MatchingSize(_, _)
MatchingSize(x, y) ==
    LET blocks == {m \in (1..Len(x)) \X (1..Len(y)) \X (1..Len(x)) :
                      /\ m[1] + m[3] - 1 <= Len(x)
                      /\ m[2] + m[3] - 1 <= Len(y)
                      /\ SubSeq(x, m[1], m[1] + m[3] - 1) = SubSeq(y, m[2], m[2] + m[3] - 1)}
    IN  IF blocks = {} THEN 0
        ELSE LET best == CHOOSE m \in blocks : \A n \in blocks :
                            \/ m[3] > n[3]
                            \/ m[3] = n[3] /\ m[1] < n[1]
                            \/ m[3] = n[3] /\ m[1] = n[1] /\ m[2] <= n[2]
             IN  best[3]
                 + MatchingSize(SubSeq(x, 1, best[1] - 1), SubSeq(y, 1, best[2] - 1))
                 + MatchingSize(SubSeq(x, best[1] + best[3], Len(x)),
                                SubSeq(y, best[2] + best[3], Len(y)))

\* x in y, for str
IsSubstring(x, y) ==
    \E i \in 1..(Len(y) - Len(x) + 1) : SubSeq(y, i, i + Len(x) - 1) = x

Max2(a, b) == IF a >= b THEN a ELSE b
Min2(a, b) == IF a <= b THEN a ELSE b
OneIfZero(n) == IF n = 0 THEN 1 ELSE n

\* score_artist_similarity, in hundredths (100.0 is 10000).  The sums are
\* computed as exact fractions over the common denominator den and rounded
\* to the nearest hundredth at the end, where the code rounds a float.
score_artist_similarity(query, candidate) ==
    IF query.normalized = <<>> \/ candidate.normalized = <<>> THEN 0
    ELSE IF query.normalized = candidate.normalized THEN 10000
    ELSE
    LET \* _sequence_score: 200 * matches / (len(left) + len(right))
        spacedLen == Len(query.normalized) + Len(candidate.normalized)
        unspacedLen == Len(query.unspaced) + Len(candidate.unspaced)
        query_set == {query.tokens[i] : i \in 1..Len(query.tokens)}
        candidate_set == {candidate.tokens[i] : i \in 1..Len(candidate.tokens)}
        intersection == Cardinality(query_set \cap candidate_set)
        union == OneIfZero(Cardinality(query_set \cup candidate_set))
        nq == OneIfZero(Cardinality(query_set))
        nc == OneIfZero(Cardinality(candidate_set))
        den == spacedLen * unspacedLen * union * nq * nc
        spaced_score == 200 * MatchingSize(query.normalized, candidate.normalized)
                        * (den \div spacedLen)
        unspaced_score == 200 * MatchingSize(query.unspaced, candidate.unspaced)
                          * (den \div unspacedLen)
        token_jaccard == 100 * intersection * (den \div union)
        token_coverage == 100 * Max2(intersection * (den \div nq),
                                     intersection * (den \div nc))
        \* the three weighted sums, times 100 * den
        base_score == Max2(Max2(62 * unspaced_score + 38 * spaced_score,
                                55 * token_coverage + 45 * token_jaccard),
                           70 * unspaced_score + 30 * token_coverage)
        contained == /\ \/ IsSubstring(query.unspaced, candidate.unspaced)
                        \/ IsSubstring(candidate.unspaced, query.unspaced)
                     /\ Min2(Len(query.unspaced), Len(candidate.unspaced)) >= 3
        boosted == IF contained THEN Max2(base_score, 9200 * den) ELSE base_score
        same == IF query.unspaced = candidate.unspaced
                THEN Max2(boosted, 9700 * den) ELSE boosted
        capped == Min2(10000 * den, same)
    IN  (2 * capped + den) \div (2 * den)

\* The sort key of a row is greater: (score, track_count, -len(name), name)
\* compared as tuples.
KeyGreater(r, q) ==
    \/ r.score > q.score
    \/ r.score = q.score /\ r.track_count > q.track_count
    \/ r.score = q.score /\ r.track_count = q.track_count /\ Len(r.name) < Len(q.name)
    \/ /\ r.score = q.score /\ r.track_count = q.track_count
       /\ Len(r.name) = Len(q.name) /\ StrLess(q.name, r.name)

\* ranked.sort(key=..., reverse=True): the rows have different names, hence
\* different keys, and come out by decreasing key.
RECURSIVE SortReverse(_)
SortReverse(rows) ==
    IF rows = {} THEN <<>>
    ELSE LET top == CHOOSE r \in rows : \A q \in rows \ {r} : KeyGreater(r, q)
         IN  <<top>> \o SortReverse(rows \ {top})

\* The loop of rank_artist_candidates: the rows of the candidates whose
\* stripped name is not empty, was not seen before and has a normalized form.
RECURSIVE RankedRows(_, _, _)
RankedRows(query_key, candidates, seen_names) ==
    IF candidates = <<>> THEN {}
    ELSE LET candidate == Head(candidates)
             name == Strip(candidate.name)
             candidate_key == build_artist_name_key(name)
         IN  IF name = <<>> \/ name \in seen_names
             THEN RankedRows(query_key, Tail(candidates), seen_names)
             ELSE IF candidate_key.normalized = <<>>
             THEN RankedRows(query_key, Tail(candidates), seen_names \cup {name})
             ELSE {[name |-> name,
                    score |-> score_artist_similarity(query_key, candidate_key),
                    track_count |-> candidate.track_count,
                    normalized_name |-> candidate_key.normalized]}
                  \cup RankedRows(query_key, Tail(candidates), seen_names \cup {name})

\* rank_artist_candidates
rank_artist_candidates(query, candidates, limit) ==
    LET query_key == build_artist_name_key(query)
        ranked == SortReverse(RankedRows(query_key, candidates, {}))
    IN  IF query_key.original = <<>> THEN <<>>
        ELSE SubSeq(ranked, 1, Min2(Len(ranked), Max2(1, limit)))

\* ------------------------------------------------------- inference client
\* A response text is a sequence of lines.  A line is a code fence, a JSON
\* document (an object with its "title" and "artist" members, an array, or
\* brackets nested deeper than the interpreter's recursion limit), a
\* "title: value" or "artist: value" line, or other text.  A member that an
\* object lacks is None; a value may be empty.
Line(kind, title, artist) == [kind |-> kind, title |-> title, artist |-> artist]
Fence == Line("fence", None, None)
JsonObject(title, artist) == Line("dict", title, artist)
JsonArray == Line("list", None, None)
JsonDeep == Line("deep", None, None)
TitleLine(value) == Line("title", value, None)
ArtistLine(value) == Line("artist", value, None)
Gibberish == Line("text", None, None)

\* The characters of a line, surrounding whitespace apart ("fence" stands
\* for the three backquotes).
LineText(l) ==
    IF l.kind = "fence" THEN <<"fence">>
    ELSE IF l.kind = "dict" THEN <<"{", "}">>
    ELSE IF l.kind = "list" THEN <<"[", "]">>
    ELSE IF l.kind = "deep" THEN <<"[", "[">>
    ELSE IF l.kind = "text" THEN <<"x">>
    ELSE <<l.kind, ":">> \o l.title

\* json.loads: the document, or the exception.  The decoder scans the first
\* document, and then objects to anything that follows it.
json_loads(lines) ==
    IF lines = <<>> THEN [raises |-> "JSONDecodeError", data |-> Gibberish]
    ELSE IF lines[1].kind = "deep" THEN [raises |-> "RecursionError", data |-> Gibberish]
    ELSE IF lines[1].kind \notin {"dict", "list"} \/ Len(lines) > 1
    THEN [raises |-> "JSONDecodeError", data |-> Gibberish]
    ELSE [raises |-> "", data |-> lines[1]]

\* _parse_response, lines 160-172: the lines between the opening fence and
\* the first fence after it, or the whole text when it opens with no fence.
StripFences(response_text) ==
    IF response_text # <<>> /\ response_text[1].kind = "fence"
    THEN LET lines == Tail(response_text)
             closing == {i \in 1..Len(lines) : lines[i].kind = "fence"}
             end_idx == IF closing = {} THEN Len(lines) + 1
                        ELSE CHOOSE i \in closing : \A j \in closing : i <= j
         IN  SubSeq(lines, 1, end_idx - 1)
    ELSE response_text

\* re.search(r'^\s*key\s*:\s*(.+?)\s*$', response_text, MULTILINE): group 1
\* of the first match, or None.  The \s* after the colon runs over the end
\* of the line, so that a key with no value takes the next line for its
\* value.
KeyValueMatch(response_text, key) ==
    LET matching == {i \in 1..Len(response_text) :
                        /\ response_text[i].kind = key
                        /\ response_text[i].title # <<>> \/ i < Len(response_text)}
    IN  IF matching = {} THEN None
        ELSE LET i == CHOOSE i \in matching : \A j \in matching : i <= j
             IN  IF response_text[i].title # <<>> THEN response_text[i].title
                 ELSE LineText(response_text[i + 1])

\* GeminiClient._parse_response: whether it raised, and the pair it returned.
\* Only JSONDecodeError and ValueError are caught around json.loads.
_parse_response(response_text) ==
    LET loaded == json_loads(StripFences(response_text))
        is_dict == loaded.raises = "" /\ loaded.data.kind = "dict"
        title == IF is_dict THEN loaded.data.title ELSE None
        artist == IF is_dict THEN loaded.data.artist ELSE None
        title_match == KeyValueMatch(response_text, "title")
        artist_match == KeyValueMatch(response_text, "artist")
    IN  IF loaded.raises = "RecursionError"
        THEN [raised |-> TRUE, title |-> None, artist |-> None]
        ELSE IF Truthy(title) /\ Truthy(artist)
        THEN [raised |-> FALSE, title |-> title, artist |-> artist]
        ELSE [raised |-> FALSE,
              title |-> IF title_match # None THEN title_match ELSE title,
              artist |-> IF artist_match # None THEN artist_match ELSE artist]

FailedToParse == <<"Failed to parse Gemini response">>
GeminiApiError == <<"Gemini API error">>

\* GeminiClient.infer_metadata once generate_content has returned
\* response_text: the tuple (title, artist, error_message, raw_response).
infer_metadata(response_text) ==
    LET parsed == _parse_response(response_text)
    IN  IF parsed.raised
        THEN [title |-> None, artist |-> None, error_message |-> GeminiApiError,
              raw_response |-> <<>>]
        ELSE IF ~Truthy(parsed.title) \/ ~Truthy(parsed.artist)
        THEN [title |-> parsed.title, artist |-> parsed.artist,
              error_message |-> FailedToParse, raw_response |-> response_text]
        ELSE [title |-> parsed.title, artist |-> parsed.artist,
              error_message |-> None, raw_response |-> response_text]

\* -------------------------------------------------------- library scanner
\* The tag fields the library index keeps.
IndexedFields == {"title", "artist", "album", "album_artist", "genre"}

\* LibraryScanner._read_raw_metadata of an MP3 file (the library files of the
\* model are MP3): the ID3 frames when the file has tags, nothing otherwise
\* or when mutagen does not know the file.
_read_raw_metadata(c) ==
    IF c.fmt = "ID3" /\ HasTags(c)
    THEN [k \in IndexedFields |-> c[k]]
    ELSE [k \in IndexedFields |-> None]

\* rel_path.parts[0]: the first directory below the library root.
FirstPart(file_path) ==
    LET rest == SubSeq(file_path, Len(NAVIDROME_ROOT) + 2, Len(file_path))
        slashes == {i \in 1..Len(rest) : rest[i] = "/"}
    IN  IF slashes = {} THEN None
        ELSE SubSeq(rest, 1, (CHOOSE i \in slashes : \A j \in slashes : i <= j) - 1)

\* LibraryScanner._infer_missing_metadata
_infer_missing_metadata(metadata, file_path) ==
    LET title == OrElse(metadata.title, Stem(file_path))
        album == IF Truthy(metadata.album) THEN metadata.album
                 ELSE IF Name(Parent(file_path)) = ALBUM_NAME THEN title
                 ELSE Name(Parent(file_path))
        artist == IF Truthy(metadata.artist) THEN metadata.artist
                  ELSE IF Truthy(metadata.album_artist) THEN metadata.album_artist
                  ELSE IF is_relative_to(file_path, NAVIDROME_ROOT \o <<"/">>)
                  THEN FirstPart(file_path)
                  ELSE metadata.artist
        album_artist == IF ~Truthy(metadata.album_artist) /\ Truthy(artist)
                        THEN artist ELSE metadata.album_artist
    IN  [title |-> title, artist |-> artist, album |-> album,
         album_artist |-> album_artist, genre |-> metadata.genre]

\* LibraryScanner._should_write_metadata
_should_write_metadata(original, inferred) ==
    \E k \in {"title", "artist", "album", "album_artist"} :
        ~Truthy(original[k]) /\ Truthy(inferred[k])

\* LibraryScanner._write_metadata on an MP3 file: a frame is added for each
\* of the five fields the file lacks and the metadata has, and the file is
\* saved when one was added; errors are logged and swallowed.
_write_metadata(c, metadata) ==
    IF c.fmt # "ID3" THEN c
    ELSE LET adds == {k \in IndexedFields : ~Truthy(c[k]) /\ Truthy(metadata[k])}
         IN  IF adds = {} THEN c
             ELSE [k \in DOMAIN c |->
                      IF k \in adds THEN metadata[k]
                      ELSE IF k = "ver" THEN Rewritten ELSE c[k]]

\* A row of library_tracks.
Track(metadata, file_modified) ==
    [title |-> metadata.title, artist |-> metadata.artist, album |-> metadata.album,
     album_artist |-> metadata.album_artist, genre |-> metadata.genre,
     file_modified |-> file_modified]

\* LibraryScanner._index_file: whether it returned (ok) or raised, the files
\* and the table afterwards.
_index_file(fs, tr, file_path, force) ==
    IF file_path \notin DOMAIN fs
    THEN \* file_path.stat() raises
         [ok |-> FALSE, files |-> fs, tracks |-> tr]
    ELSE IF ~force /\ file_path \in DOMAIN tr
            /\ tr[file_path].file_modified >= fs[file_path].ver
    THEN [ok |-> TRUE, files |-> fs, tracks |-> tr]
    ELSE
    LET metadata == _read_raw_metadata(fs[file_path])
        inferred_metadata == _infer_missing_metadata(metadata, file_path)
        written == IF _should_write_metadata(metadata, inferred_metadata)
                   THEN _write_metadata(fs[file_path], inferred_metadata)
                   ELSE fs[file_path]
    IN  [ok |-> TRUE,
         files |-> WriteFile(fs, file_path, written),
         tracks |-> [q \in DOMAIN tr \cup {file_path} |->
                        IF q = file_path THEN Track(inferred_metadata, written.ver)
                        ELSE tr[q]]]

\* LibraryScanner._cleanup_missing_files
_cleanup_missing_files(fs, tr) == [q \in DOMAIN tr \cap DOMAIN fs |-> tr[q]]

\* The name of a new thread: the first one no live thread bears.
NewThread(ths) == CHOOSE t \in 1..(Cardinality(DOMAIN ths) + 1) : t \notin DOMAIN ths

\* LibraryScanner.start_scan: the value it returns and the threads afterwards;
\* the new thread stands before the first line of _scan_library.
start_scan(ls, ths, force_full) ==
    IF ls.is_scanning THEN [started |-> FALSE, threads |-> ths]
    ELSE [started |-> TRUE,
          threads |-> [t \in DOMAIN ths \cup {NewThread(ths)} |->
                          IF t \in DOMAIN ths THEN ths[t]
                          ELSE [pc |-> "started", force |-> force_full,
                                audio_files |-> {}]]]

ScanInProgress == <<"Scan already in progress">>
ScanNotStarted == <<"Failed to start scan">>

\* rescan_library of the library API
rescan_library(ls, ths, force) ==
    IF ls.is_scanning THEN [code |-> 409, detail |-> ScanInProgress, threads |-> ths]
    ELSE LET r == start_scan(ls, ths, force)
         IN  IF ~r.started
             THEN [code |-> 500, detail |-> ScanNotStarted, threads |-> ths]
             ELSE [code |-> 200, detail |-> Ok, threads |-> r.threads]

\* -------------------------------------------------------------------- api
ItemNotFound == <<"Item not found">>
FileNotFound == <<"File not found">>
CannotConfirm == <<"Item cannot be confirmed">>
TitleRequired == <<"Title is required">>
ArtistRequired == <<"Artist is required">>
GenreRequired == <<"Genre is required">>
GenreSpecific == <<"Please enter a specific genre">>
GenreTooLong == <<"Genre too long, max 200 characters">>
TitleTooLong == <<"max 300 chars (title)">>
ArtistTooLong == <<"max 300 chars (artist)">>

Confirmable == {"pending", "error", "needs_manual"}

\* What a handler answers and leaves behind.
Response(fs, db, code, detail, new_path) ==
    [files |-> fs, items |-> db, code |-> code, detail |-> detail, new_path |-> new_path]

UnknownArtist == <<"u", "n", "k", "n", "o", "w", "n">>

\* dry_run_item: the body it answers is the detail of the response, the
\* destination of the preview its new_path.
dry_run_item(fs, db, item_id, writable) ==
    IF item_id \notin DOMAIN db THEN Response(fs, db, 404, ItemNotFound, None)
    ELSE
    LET item == db[item_id]
        title == TextOrEmpty(item.current_title)
        artist == TextOrEmpty(item.current_artist)
        genre == TextOrEmpty(item.genre)
        missing_fields ==
            {k \in {"title"} : title = <<>>} \cup {k \in {"artist"} : artist = <<>>}
            \cup {k \in {"genre"} : genre = <<>>}
            \cup {k \in {"file"} : item.current_path \notin DOMAIN fs}
        preview == get_destination_preview(fs,
                       IF artist = <<>> THEN UnknownArtist ELSE artist,
                       IF title = <<>> THEN Untitled ELSE title,
                       item.extension, writable)
        permission_ok == preview.navidrome_root_writable
                         /\ preview.destination_parent_writable
    IN  Response(fs, db, 200,
                 [can_confirm |-> missing_fields = {} /\ permission_ok,
                  missing_fields |-> missing_fields,
                  source_path |-> item.current_path,
                  move_preview |-> preview],
                 preview.destination_path)

\* The checks of confirm_item without the one of the status.
ConfirmRejection_AnyStatus(item) ==
    IF ~Truthy(item.current_title) \/ Strip(item.current_title) = <<>> THEN TitleRequired
    ELSE IF ~Truthy(item.current_artist) \/ Strip(item.current_artist) = <<>> THEN ArtistRequired
    ELSE IF ~Truthy(item.genre) \/ Strip(item.genre) = <<>> THEN GenreRequired
    ELSE IF Strip(item.genre) = OtherGenre THEN GenreSpecific
    ELSE IF Len(Strip(item.genre)) > MaxGenreLen THEN GenreTooLong
    ELSE None

\* The check of the status alone.
ConfirmRejection_StatusOnly(item) ==
    IF item.status \notin Confirmable THEN CannotConfirm ELSE None

\* The first check of confirm_item that rejects the item; None when all pass
\* (api.py lines 182-201).
ConfirmRejection(item) ==
    IF item.status \notin Confirmable THEN CannotConfirm
    ELSE IF ~Truthy(item.current_title) \/ Strip(item.current_title) = <<>> THEN TitleRequired
    ELSE IF ~Truthy(item.current_artist) \/ Strip(item.current_artist) = <<>> THEN ArtistRequired
    ELSE IF ~Truthy(item.genre) \/ Strip(item.genre) = <<>> THEN GenreRequired
    ELSE IF Strip(item.genre) = OtherGenre THEN GenreSpecific
    ELSE IF Len(Strip(item.genre)) > MaxGenreLen THEN GenreTooLong
    ELSE None

\* A failure of confirm_item with message msg: update_item_error(msg), then
\* HTTP 500.  When the persistence layer raises (dbFault), the outer handler
\* calls update_item_error(str(e)), which works ("transient") or raises again
\* and is swallowed ("persistent").
ConfirmFailure(fs, db, item_id, msg, dbFault) ==
    IF dbFault = "none"
    THEN Response(fs, update_item_error(db, item_id, msg), 500, msg, None)
    ELSE IF dbFault = "transient"
    THEN Response(fs, update_item_error(db, item_id, DatabaseError), 500, DatabaseError, None)
    ELSE Response(fs, db, 500, DatabaseError, None)

\* The cleanup of confirm_item after mark_as_done (api.py lines 269-286).
ConfirmCleanup(cfg, fs, original_path, current_path, unlinkFails) ==
    LET fs1 == IF original_path \in DOMAIN fs /\ ~unlinkFails
               THEN unlink(fs, original_path) ELSE fs
        staging_dir == Parent(current_path)
    IN  \* without config.STAGING_DIR the test raises and is logged
        IF cfg.STAGING_DIR # None /\ is_relative_to(staging_dir, cfg.STAGING_DIR)
           /\ ~unlinkFails
        THEN rmtree(fs1, staging_dir)
        ELSE fs1

\* confirm_item
confirm_item(cfg, fs, db, item_id, fault) ==
    IF item_id \notin DOMAIN db THEN Response(fs, db, 404, ItemNotFound, None)
    ELSE
    LET item == db[item_id]
        rejection == ConfirmRejection(item)
    IN  IF rejection # None THEN Response(fs, db, 400, rejection, None)
        ELSE IF item.current_path \notin DOMAIN fs
        THEN Response(fs, db, 404, FileNotFound, None)
        ELSE
        LET title == Strip(item.current_title)
            artist == Strip(item.current_artist)
            genre == Strip(item.genre)
            current_path == item.current_path
            fs1 == IF Truthy(item.artwork_path) /\ item.artwork_path \in DOMAIN fs
                   THEN WriteFile(fs, current_path,
                            embed_artwork_safe(fs[current_path], fault.art).content)
                   ELSE fs
            written == update_metadata_safe(fs1[current_path],
                           [NoFields EXCEPT !.title = title, !.artist = artist,
                               !.album = title, !.album_artist = artist,
                               !.genre = genre],
                           fault.save)
            fs2 == WriteFile(fs1, current_path, written.content)
        IN  IF ~written.ok
            THEN ConfirmFailure(fs2, db, item_id, ApplyFailed, fault.db)
            ELSE
            LET moved == move_to_navidrome(fs2, current_path, artist, title,
                                           item.extension, fault.move)
            IN  IF moved.new_path = None
                THEN ConfirmFailure(moved.files, db, item_id, MoveFailed, fault.db)
                ELSE IF fault.db # "none"
                THEN \* mark_as_done raises
                     IF fault.db = "transient"
                     THEN Response(moved.files,
                              update_item_error(db, item_id, DatabaseError),
                              500, DatabaseError, None)
                     ELSE Response(moved.files, db, 500, DatabaseError, None)
                ELSE Response(
                         ConfirmCleanup(cfg, moved.files, item.original_path,
                                        current_path, fault.unlink),
                         mark_as_done(db, item_id, moved.new_path),
                         200, Ok, moved.new_path)

\* The checks of update_item without those of the genre.
UpdateRejection_NoGenreCheck(req) ==
    IF req.title # None /\ Len(Strip(req.title)) > MaxTitleLen THEN TitleTooLong
    ELSE IF req.artist # None /\ Len(Strip(req.artist)) > MaxTitleLen THEN ArtistTooLong
    ELSE None

\* The first check of update_item that rejects the request; None when all
\* pass (api.py lines 127-145).
UpdateRejection(req) ==
    IF req.title # None /\ Len(Strip(req.title)) > MaxTitleLen THEN TitleTooLong
    ELSE IF req.artist # None /\ Len(Strip(req.artist)) > MaxTitleLen THEN ArtistTooLong
    ELSE IF req.genre # None /\ Strip(req.genre) = OtherGenre THEN GenreSpecific
    ELSE IF req.genre # None /\ Len(Strip(req.genre)) > MaxGenreLen THEN GenreTooLong
    ELSE None

\* req.<field>.strip() if it was sent
Sent(x) == IF x = None THEN None ELSE Strip(x)

\* update_item of the API
api_update_item(fs, db, item_id, req) ==
    LET rejection == UpdateRejection(req)
    IN  IF rejection # None THEN Response(fs, db, 400, rejection, None)
        ELSE IF item_id \notin DOMAIN db THEN Response(fs, db, 404, ItemNotFound, None)
        ELSE Response(fs,
                      update_item(db, item_id, Sent(req.title), Sent(req.artist),
                                  Sent(req.genre)),
                      200, Ok, None)

\* A delete whose unlink errors reach the handler's except: HTTP 500 and the
\* record stays.
delete_item_Unguarded(fs, db, item_id, failing) ==
    IF item_id \notin DOMAIN db THEN Response(fs, db, 500, ItemNotFound, None)
    ELSE
    LET item == db[item_id]
        fs1 == IF item.current_path \in DOMAIN fs THEN unlink(fs, item.current_path) ELSE fs
        fs2 == IF item.original_path \in DOMAIN fs1 THEN unlink(fs1, item.original_path) ELSE fs1
        fs3 == IF Truthy(item.artwork_path) /\ item.artwork_path \in DOMAIN fs2
               THEN unlink(fs2, item.artwork_path) ELSE fs2
    IN  IF item.current_path \in DOMAIN fs /\ "current" \in failing
        THEN Response(fs, db, 500, FileNotFound, None)
        ELSE IF item.original_path \in DOMAIN fs1 /\ "original" \in failing
        THEN Response(fs1, db, 500, FileNotFound, None)
        ELSE IF Truthy(item.artwork_path) /\ item.artwork_path \in DOMAIN fs2
                /\ "artwork" \in failing
        THEN Response(fs2, db, 500, FileNotFound, None)
        ELSE Response(fs3, [i \in DOMAIN db \ {item_id} |-> db[i]], 200, Ok, None)

\* delete_item; `failing` names the unlink calls that raise.
delete_item(fs, db, item_id, failing) ==
    IF item_id \notin DOMAIN db
    THEN \* the HTTPException is caught by the handler's own except Exception
         Response(fs, db, 500, ItemNotFound, None)
    ELSE
    LET item == db[item_id]
        fs1 == IF item.current_path \in DOMAIN fs /\ "current" \notin failing
               THEN unlink(fs, item.current_path) ELSE fs
        fs2 == IF item.original_path \in DOMAIN fs1 /\ "original" \notin failing
               THEN unlink(fs1, item.original_path) ELSE fs1
        fs3 == IF Truthy(item.artwork_path) /\ item.artwork_path \in DOMAIN fs2
                  /\ "artwork" \notin failing
               THEN unlink(fs2, item.artwork_path) ELSE fs2
    IN  Response(fs3, [i \in DOMAIN db \ {item_id} |-> db[i]], 200, Ok, None)

\* ------------------------------------------------------------------ state
VARIABLES
    files,      \* the file system: path -> content, for the files that exist
    items,      \* table pending_items: id -> row
    scanQueue,  \* the listing of the running scan pass, not yet processed
    last,       \* the last operation and what it answered
    config,     \* the configuration object the modules import
    file_scanner,     \* the intake scanner's thread: the call it waits in
    library_scanner,  \* the fields of the LibraryScanner instance
    threads,    \* the library scan threads: id -> position and listing
    tracks      \* table library_tracks: file_path -> row

vars == <<files, items, scanQueue, last, config, file_scanner, library_scanner, threads, tracks>>

\* What the review API and the outside world leave alone.
scanners == <<file_scanner, library_scanner, threads, tracks>>

\* The files the downloader writes into the intake directory: one whose name
\* has the "title###channel" shape and one whose name has not.
FirstPath == Join(INCOMING_ROOT, <<"S", "###", "C", ".mp3">>)
SecondPath == Join(INCOMING_ROOT, <<"X", ".mp3">>)
IntakePaths == {FirstPath, SecondPath}

\* What the downloader writes: an untagged file with some modification time,
\* an MP3 or an Opus stream (mutagen goes by the content, not by the name).
IntakeContents == {BlankAudio(fmt, ver) : fmt \in {"ID3", "Opus"}, ver \in 0..MaxVer}


\* What the inference service may answer: both fields, one field, nothing.
GeminiAnswers ==
    {[title |-> <<"A">>, artist |-> <<"B">>, raw |-> <<"title: A", "\n", "artist: B">>],
     [title |-> <<"A">>, artist |-> None, raw |-> <<"title: A">>],
     [title |-> None, artist |-> None, raw |-> <<>>]}

\* The environment of one process_file call: the uuid4 drawn, the answer of
\* the inference service, whether the copy into staging and the tag write
\* fail.
Uuids == {"u1", "u2"}
ScanEnvs ==
    {[uuid |-> u, gemini |-> g, copyFails |-> c, saveFails |-> w] :
        u \in Uuids, g \in GeminiAnswers, c \in BOOLEAN, w \in BOOLEAN}

\* The bodies of update requests: valid ones (a title that needs stripping
\* and sanitising), ones with a field too long or the reserved genre, and
\* ones that mix a valid field with an invalid one.
NewTitle == <<" ", "A", ":">>
NewArtist == <<"B">>
NewGenre == <<"G", " ">>
LongText == Filler(MaxTitleLen + 1)
LongGenre == Filler(MaxGenreLen + 1)
Request(t, a, g) == [title |-> t, artist |-> a, genre |-> g]
UpdateRequests ==
    {Request(NewTitle, NewArtist, NewGenre),
     Request(NewTitle, None, None), Request(None, NewArtist, None),
     Request(None, None, NewGenre),
     Request(LongText, None, None), Request(None, LongText, None),
     Request(None, None, <<" ">> \o OtherGenre), Request(None, None, LongGenre),
     Request(NewTitle, NewArtist, <<" ">> \o OtherGenre),
     Request(NewTitle, LongText, NewGenre),
     Request(LongText, NewArtist, NewGenre),
     Request(NewTitle, NewArtist, LongGenre)}

\* The faults of one confirm: save (the temporary copy cannot be written),
\* move (mkdir or the rename raises), db (the persistence layer raises), art
\* (the artwork copy cannot be written), unlink (the cleanup raises).
ConfirmFaults ==
    {[save |-> s, move |-> m, db |-> d, art |-> FALSE, unlink |-> FALSE] :
        s \in BOOLEAN, m \in BOOLEAN, d \in {"none", "transient", "persistent"}}
    \cup {[save |-> FALSE, move |-> FALSE, db |-> "none", art |-> a, unlink |-> u] :
        a \in BOOLEAN, u \in BOOLEAN}

\* A confirm during which nothing fails.
NoFault == [save |-> FALSE, move |-> FALSE, db |-> "none", art |-> FALSE, unlink |-> FALSE]

\* The record of an operation: a request (its item, its body) and its answer,
\* or a process_file call (its file, the number of calls of the inference
\* service it made, the text the service answers);
\* "env" for a step of the outside world or the start of a scan pass.
Op(op, id, arg, code, detail) ==
    [op |-> op, id |-> id, arg |-> arg, code |-> code, detail |-> detail]
EnvStep == Op("env", 0, None, 0, None)

\* LibraryScanner.__init__
LibraryScanner ==
    [is_scanning |-> FALSE, total_files |-> 0, processed_files |-> 0, errors |-> <<>>]

\* FileScanner after start(): its one thread runs scan_loop and waits in no
\* call.
FileScanner == [calling |-> None]

\* No library scan has been asked for.
ScannersInit ==
    /\ file_scanner = FileScanner
    /\ library_scanner = LibraryScanner
    /\ threads = [t \in {} |-> 0]
    /\ tracks = [q \in {} |-> 0]

Init ==
    /\ files = [p \in {} |-> BlankAudio("ID3", 0)]
    /\ items = [i \in {} |-> 0]
    /\ scanQueue = {}
    /\ last = EnvStep
    /\ config = Config
    /\ ScannersInit

\* The downloader (or anyone else) writes an intake file.
ExternalWrite(p, c) ==
    /\ p \in DOMAIN files => files[p] # c
    /\ files' = WriteFile(files, p, c)
    /\ last' = EnvStep
    /\ UNCHANGED <<items, scanQueue, config>>
    /\ UNCHANGED scanners

\* Someone removes an intake file.
ExternalRemove(p) ==
    /\ p \in DOMAIN files
    /\ files' = unlink(files, p)
    /\ last' = EnvStep
    /\ UNCHANGED <<items, scanQueue, config>>
    /\ UNCHANGED scanners

\* scan_loop: a new pass lists the intake directory.
ScanDirectory ==
    /\ scanQueue = {}
    /\ file_scanner.calling = None
    /\ scanQueue' = DOMAIN files \cap IntakePaths
    /\ scanQueue' # {}
    /\ last' = EnvStep
    /\ UNCHANGED <<files, items, config>>
    /\ UNCHANGED scanners

\* scan_loop: process_file on one file of the listing.
ProcessFile(p, env) ==
    /\ p \in scanQueue
    /\ file_scanner.calling = None
    /\ config.STAGING_DIR # None =>
          \A q \in DOMAIN files :
              ~is_relative_to(q, Join(config.STAGING_DIR, <<env.uuid>>) \o <<"/">>)
    /\ LET out == process_file(config, files, items, p, env)
       IN  /\ files' = out.files
           /\ items' = out.items
    /\ scanQueue' = scan_loop_rest(files, scanQueue, p)
    /\ last' = Op("process", 0, p, InferenceCalls(config, files, items, p, env),
                  env.gemini.raw)
    /\ UNCHANGED config
    /\ UNCHANGED scanners

\* POST /api/pending/{id}/update
Update(id, req) ==
    /\ id \in DOMAIN items => items[id].updated_at < MaxStamp
    /\ LET r == api_update_item(files, items, id, req)
       IN  /\ files' = r.files
           /\ items' = r.items
           /\ last' = Op("update", id, req, r.code, r.detail)
    /\ UNCHANGED <<scanQueue, config>>
    /\ UNCHANGED scanners

\* The files of the library.
Library(fs) == {p \in DOMAIN fs : is_relative_to(p, NAVIDROME_ROOT \o <<"/">>)}

\* The confirm handled just before this request (its item, its answer); None
\* when the step before was something else.
Preceding ==
    IF last.op = "confirm" THEN <<ToString(last.id), ToString(last.code)>> ELSE None

\* POST /api/pending/{id}/confirm.  The handler has no await before its last
\* write to the table, so no other handler runs in between.
Confirm(id, fault) ==
    /\ id \in DOMAIN items => items[id].updated_at < MaxStamp
    /\ Cardinality(Library(files)) < MaxLibrary
    /\ LET r == confirm_item(config, files, items, id, fault)
       IN  /\ files' = r.files
           /\ items' = r.items
           /\ last' = Op("confirm", id, Preceding, r.code, r.detail)
    /\ UNCHANGED <<scanQueue, config>>
    /\ UNCHANGED scanners

\* DELETE /api/pending/{id}
Delete(id, failing) ==
    /\ LET r == delete_item(files, items, id, failing)
       IN  /\ files' = r.files
           /\ items' = r.items
           /\ last' = Op("delete", id,
                         IF failing = {} THEN None ELSE <<"unlink fails">>,
                         r.code, r.detail)
    /\ UNCHANGED <<scanQueue, config>>
    /\ UNCHANGED scanners

\* What os.access may answer for the library root and the destination's
\* nearest existing ancestor.
Writables == {[root |-> r, parent |-> d] : r \in BOOLEAN, d \in BOOLEAN}

\* GET /api/pending/{id}/dry-run
DryRun(id, writable) ==
    /\ LET r == dry_run_item(files, items, id, writable)
       IN  /\ files' = r.files
           /\ items' = r.items
           /\ last' = Op("dry_run", id,
                         IF r.code = 200 /\ r.detail.can_confirm
                         THEN <<"can_confirm">> ELSE None,
                         r.code, r.new_path)
    /\ UNCHANGED <<scanQueue, config>>
    /\ UNCHANGED scanners

\* The ids a request may name: those of the rows, and 1, which names no row
\* when the table is empty.
ItemIds == DOMAIN items \cup {1}

Next ==
    \/ \E c \in IntakeContents : ExternalWrite(FirstPath, c)
    \/ ExternalRemove(FirstPath)
    \/ ScanDirectory
    \/ \E env \in ScanEnvs : ProcessFile(FirstPath, env)
    \/ \E id \in ItemIds, req \in UpdateRequests : Update(id, req)
    \/ \E id \in ItemIds, fault \in ConfirmFaults : Confirm(id, fault)
    \/ \E id \in ItemIds, failing \in SUBSET {"current", "original", "artwork"} :
          Delete(id, failing)
    \/ \E id \in ItemIds, writable \in Writables : DryRun(id, writable)

Spec == Init /\ [][Next]_vars

\* The same program under the configuration its tests assert.
InitStaged ==
    /\ files = [p \in {} |-> BlankAudio("ID3", 0)]
    /\ items = [i \in {} |-> 0]
    /\ scanQueue = {}
    /\ last = EnvStep
    /\ config = TestedConfig
    /\ ScannersInit

\* There the downloader writes one file, staged copies may be cleaned away
\* from outside, and the operator sends complete edits or a genre alone.
NextStaged ==
    \/ ExternalWrite(FirstPath, BlankAudio("ID3", 0))
    \/ \E p \in DOMAIN files \ Library(files) : ExternalRemove(p)
    \/ ScanDirectory
    \/ \E env \in ScanEnvs : ProcessFile(FirstPath, env)
    \/ \E id \in ItemIds,
          req \in {Request(NewTitle, NewArtist, NewGenre), Request(None, None, NewGenre)} :
          Update(id, req)
    \/ \E id \in ItemIds, fault \in ConfirmFaults : Confirm(id, fault)
    \/ \E id \in ItemIds : Delete(id, {})

SpecStaged == InitStaged /\ [][NextStaged]_vars

\* Two intake files whose items get the same title and artist: the edits
\* are complete ones, and a confirm runs without fault or with the move
\* failing.
NextPair ==
    \/ \E p \in IntakePaths : ExternalWrite(p, BlankAudio("ID3", 0))
    \/ ScanDirectory
    \/ \E p \in IntakePaths, env \in ScanEnvs : ProcessFile(p, env)
    \/ \E id \in ItemIds : Update(id, Request(NewTitle, NewArtist, NewGenre))
    \/ \E id \in ItemIds, fault \in {f \in ConfirmFaults : ~f.save /\ f.db = "none" /\ ~f.art /\ ~f.unlink} :
          Confirm(id, fault)

SpecPair == Init /\ [][NextPair]_vars

\* ------------------------------------------------------ the intake scan
\* Intake files as the downloader may leave them: without tags; with a
\* title (one that carries a leading blank, or a plain one), an artist and,
\* for some, a cover; with an artist only.
ScanContents ==
    {BlankAudio("ID3", 0),
     [BlankAudio("ID3", 0) EXCEPT !.title = <<" ", "T">>, !.artist = <<"R">>, !.art = TRUE],
     [BlankAudio("ID3", 0) EXCEPT !.title = <<"T">>, !.artist = <<"R">>],
     [BlankAudio("ID3", 0) EXCEPT !.artist = <<"R">>, !.art = TRUE],
     [BlankAudio("ID3", 0) EXCEPT !.title = <<"T">>]}

\* The program as shipped and as its tests configure it.
InitScan ==
    /\ files = [p \in {} |-> BlankAudio("ID3", 0)]
    /\ items = [i \in {} |-> 0]
    /\ scanQueue = {}
    /\ last = EnvStep
    /\ config \in {Config, TestedConfig}
    /\ ScannersInit

\* process_file(p) up to its call of gemini_client.infer_metadata, when
\* model.generate_content(prompt), which is given no timeout, does not
\* return: the scanner thread stays in the call.
InferenceHangs(p, env) ==
    /\ p \in scanQueue
    /\ file_scanner.calling = None
    /\ InferenceCalls(config, files, items, p, env) = 1
    /\ \A q \in DOMAIN files :
          ~is_relative_to(q, Join(config.STAGING_DIR, <<env.uuid>>) \o <<"/">>)
    /\ files' = StagedFiles(config, files, p, env)
    /\ file_scanner' = [file_scanner EXCEPT !.calling = p]
    /\ last' = Op("infer", 0, p, 1, None)
    /\ UNCHANGED <<items, scanQueue, config, library_scanner, threads, tracks>>

\* The downloader writes a file that is not there; the tag write of the
\* scanner does not fail; the operator sets the genre of an item that has
\* none, and confirms while the library is empty.
NextScan ==
    \/ /\ FirstPath \notin DOMAIN files
       /\ \E c \in ScanContents : ExternalWrite(FirstPath, c)
    \/ ScanDirectory
    \/ \E env \in {e \in ScanEnvs : ~e.saveFails} : ProcessFile(FirstPath, env)
    \/ \E env \in {e \in ScanEnvs : ~e.saveFails} : InferenceHangs(FirstPath, env)
    \/ \E id \in ItemIds :
          /\ id \in DOMAIN items => items[id].genre = None
          /\ Update(id, Request(None, None, NewGenre))
    \/ /\ Library(files) = {}
       /\ \E id \in ItemIds : Confirm(id, NoFault)
    \/ \E id \in ItemIds, failing \in SUBSET {"current", "original", "artwork"} :
          Delete(id, failing)

SpecScan == InitScan /\ [][NextScan]_vars

\* ---------------------------------------------------------- file names
\* The names given to sanitize_filename: every text of at most MaxName
\* characters over the illegal characters, the dot, the space and a letter.
NameChars == IllegalChars \cup {".", " ", "a"}
Names == UNION {[1..n -> NameChars] : n \in 0..MaxName}

InitNames ==
    /\ files = << >>
    /\ items = [i \in {} |-> 0]
    /\ scanQueue = {}
    /\ \E filename \in Names : last = Op("name", 0, filename, 0, None)
    /\ config = Config
    /\ ScannersInit

\* sanitize_filename is applied to the name.
Sanitize ==
    /\ last.op = "name"
    /\ last' = Op("sanitize_filename", 0, last.arg, 0, sanitize_filename(last.arg))
    /\ UNCHANGED <<files, items, scanQueue, config>>
    /\ UNCHANGED scanners

SpecNames == InitNames /\ [][Sanitize]_vars

\* ------------------------------------------- intake scanner start and stop
\* FileScanner.__init__: not running, no thread.
NewFileScanner == [running |-> FALSE, thread |-> None, calling |-> None]

\* In this specification threads holds the threads whose target is
\* scan_loop: id -> where the thread is.  "while" is the test of
\* self.running at the head of the loop, "pass" the listing and the loop over
\* the files, "sleep" the wait before the next pass.
InitLoops ==
    /\ files = << >>
    /\ items = [i \in {} |-> 0]
    /\ scanQueue = {}
    /\ last = EnvStep
    /\ config = Config
    /\ file_scanner = NewFileScanner
    /\ library_scanner = LibraryScanner
    /\ threads = [t \in {} |-> 0]
    /\ tracks = [q \in {} |-> 0]

\* FileScanner.start
Start ==
    /\ file_scanner.running \/ Cardinality(DOMAIN threads) < MaxLoops
    /\ IF file_scanner.running
       THEN /\ last' = Op("start", 0, None, 0, <<"already running">>)
            /\ UNCHANGED <<file_scanner, threads>>
       ELSE LET t == NewThread(threads)
            IN  /\ file_scanner' = [file_scanner EXCEPT !.running = TRUE, !.thread = t]
                /\ threads' = [u \in DOMAIN threads \cup {t} |->
                                  IF u = t THEN [target |-> "scan_loop", pc |-> "while"]
                                  ELSE threads[u]]
                /\ last' = Op("start", t, None, 0, <<"started">>)
    /\ UNCHANGED <<files, items, scanQueue, config, library_scanner, tracks>>

\* FileScanner.stop: the flag is cleared and self.thread is joined for five
\* seconds.  The join returns early when the thread leaves its loop in that
\* time (ended), and after the five seconds otherwise: the thread is still
\* sleeping, for SCAN_INTERVAL_SECONDS, or in process_file.  A thread at
\* the test of its while ends at once.
Stop(ended) ==
    /\ (file_scanner.thread \in DOMAIN threads /\ ~ended)
           => threads[file_scanner.thread].pc \in {"pass", "sleep"}
    /\ file_scanner' = [file_scanner EXCEPT !.running = FALSE]
    /\ IF file_scanner.thread \in DOMAIN threads /\ ended
       THEN threads' = [u \in DOMAIN threads \ {file_scanner.thread} |-> threads[u]]
       ELSE UNCHANGED threads
    /\ last' = Op("stop", 0, None, 0,
                  IF file_scanner.thread \in DOMAIN threads /\ ~ended
                  THEN <<"join timed out">> ELSE <<"stopped">>)
    /\ UNCHANGED <<files, items, scanQueue, config, library_scanner, tracks>>

\* scan_loop, the test of its while: the thread goes on while self.running
\* is set, whoever set it, and ends otherwise.
LoopTest(t) ==
    /\ t \in DOMAIN threads
    /\ threads[t].pc = "while"
    /\ IF file_scanner.running
       THEN threads' = [threads EXCEPT ![t].pc = "pass"]
       ELSE threads' = [u \in DOMAIN threads \ {t} |-> threads[u]]
    /\ last' = Op("scan_loop", t, None, 0, None)
    /\ UNCHANGED <<files, items, scanQueue, config, file_scanner, library_scanner, tracks>>

\* scan_loop, one pass: the files are listed and processed, then the thread
\* sleeps.
LoopPass(t) ==
    /\ t \in DOMAIN threads
    /\ threads[t].pc = "pass"
    /\ threads' = [threads EXCEPT ![t].pc = "sleep"]
    /\ last' = Op("scan_loop", t, None, 0, None)
    /\ UNCHANGED <<files, items, scanQueue, config, file_scanner, library_scanner, tracks>>

\* scan_loop, the end of time.sleep
LoopWake(t) ==
    /\ t \in DOMAIN threads
    /\ threads[t].pc = "sleep"
    /\ threads' = [threads EXCEPT ![t].pc = "while"]
    /\ last' = Op("scan_loop", t, None, 0, None)
    /\ UNCHANGED <<files, items, scanQueue, config, file_scanner, library_scanner, tracks>>

NextLoops ==
    \/ Start
    \/ \E ended \in BOOLEAN : Stop(ended)
    \/ \E t \in 1..MaxLoops : LoopTest(t) \/ LoopPass(t) \/ LoopWake(t)

SpecLoops == InitLoops /\ [][NextLoops]_vars

\* ------------------------------------------------------- artist ranking
\* The names asked about and the candidates offered: names that differ by
\* case, spacing and punctuation, that have the same length and the same
\* number of tracks, a repeated name and names with no letter.
Queries ==
    {<<>>, <<" ">>, <<"!">>, <<"c">>, <<"a", "b">>, <<"A", "~", "b">>}
Candidates ==
    {[name |-> <<"a", "b">>, track_count |-> 2],
     [name |-> <<"a", "b">>, track_count |-> 0],
     [name |-> <<"b", "a">>, track_count |-> 2],
     [name |-> <<" ", "a", "b">>, track_count |-> 0],
     [name |-> <<"a", " ", "b">>, track_count |-> 2],
     [name |-> <<"a", "b", "c">>, track_count |-> 2],
     [name |-> <<"!">>, track_count |-> 0]}
Limits == {0, 1, 5}

InitArtists ==
    /\ files = << >>
    /\ items = [i \in {} |-> 0]
    /\ scanQueue = {}
    /\ \E query \in Queries, limit \in Limits,
          candidates \in UNION {[1..n -> Candidates] : n \in 0..MaxCandidates} :
            last = Op("artists", limit, query, 0, candidates)
    /\ config = Config
    /\ ScannersInit

\* rank_artist_candidates(query, candidates, limit=limit)
RankArtists ==
    /\ last.op = "artists"
    /\ last' = Op("rank_artist_candidates", last.id, last.arg, 0,
                  [candidates |-> last.detail,
                   ranked |-> rank_artist_candidates(last.arg, last.detail, last.id)])
    /\ UNCHANGED <<files, items, scanQueue, config>>
    /\ UNCHANGED scanners

\* score_artist_similarity of the key of the query with itself
ScoreItself ==
    /\ last.op = "artists"
    /\ last' = Op("score_artist_similarity", 0, last.arg,
                  score_artist_similarity(build_artist_name_key(last.arg),
                                          build_artist_name_key(last.arg)),
                  None)
    /\ UNCHANGED <<files, items, scanQueue, config>>
    /\ UNCHANGED scanners

NextArtists == RankArtists \/ ScoreItself

SpecArtists == InitArtists /\ [][NextArtists]_vars

\* ------------------------------------------------- confirm and the cover
\* Files that carry a cover, a title and an artist, in the three containers
\* extract_artwork reads a cover from.
CoverContents ==
    {[BlankAudio(fmt, 0) EXCEPT !.title = <<"T">>, !.artist = <<"R">>, !.art = TRUE] :
        fmt \in {"MP4", "ID3", "FLAC"}}

\* The faults of a confirm that finds a cover to embed: the embedding, the
\* tag write and the move may each fail.
CoverFaults ==
    {[save |-> s, move |-> m, db |-> "none", art |-> a, unlink |-> FALSE] :
        s \in BOOLEAN, m \in BOOLEAN, a \in BOOLEAN}

\* POST /api/pending/{id}/confirm, the faults of the call kept in the record
\* of the operation.
ConfirmCover(id, fault) ==
    /\ id \in DOMAIN items => items[id].updated_at < MaxStamp
    /\ Cardinality(Library(files)) < MaxLibrary
    /\ LET r == confirm_item(config, files, items, id, fault)
       IN  /\ files' = r.files
           /\ items' = r.items
           /\ last' = Op("confirm", id, fault, r.code, r.detail)
    /\ UNCHANGED <<scanQueue, config>>
    /\ UNCHANGED scanners

\* The staged pipeline on files with a cover: the cover is extracted into the
\* artwork cache by the scan and may be cleaned away from outside before the
\* operator sets the genre and confirms.
NextCover ==
    \/ \E c \in CoverContents :
          FirstPath \notin DOMAIN files /\ ExternalWrite(FirstPath, c)
    \/ \E p \in {q \in DOMAIN files : is_relative_to(q, ARTWORK_DIR \o <<"/">>)} :
          ExternalRemove(p)
    \/ ScanDirectory
    \/ \E env \in {e \in ScanEnvs : ~e.saveFails /\ ~e.copyFails /\ e.gemini.raw = <<>>} :
          ProcessFile(FirstPath, env)
    \/ \E id \in ItemIds : Update(id, Request(None, None, NewGenre))
    \/ \E id \in ItemIds, fault \in CoverFaults : ConfirmCover(id, fault)

SpecCover == InitStaged /\ [][NextCover]_vars

\* ------------------------------------------------------- the tag writer
\* update_metadata_safe as the library editor calls it (update_track passes
\* the request's fields on unchecked): one library file of any content, and
\* writes of any combination of a title, a year and a track number.
TrackPath == Join(AlbumDir(<<"B">>), <<"A", ".mp3">>)

TrackContents ==
    {[BlankAudio(fmt, 0) EXCEPT !.title = t, !.year = y, !.track = n, !.art = a] :
        fmt \in Formats, t \in {None, <<"T">>}, y \in {NoneInt, 1999},
        n \in {NoPair, [v |-> 3, t |-> NoneInt], [v |-> 3, t |-> 12]},
        a \in BOOLEAN}

TrackFields ==
    {[NoFields EXCEPT !.title = t, !.year = y, !.track_number = n] :
        t \in {None, <<" ", "N">>}, y \in {NoneInt, 2001, 12345},
        n \in {NoneInt, 5}}

InitCodec ==
    /\ \E c \in TrackContents : files = WriteFile(<< >>, TrackPath, c)
    /\ items = [i \in {} |-> 0]
    /\ scanQueue = {}
    /\ last = EnvStep
    /\ config = Config
    /\ ScannersInit

\* POST /api/library/tracks/{id}/update on the track of file p.
UpdateTrack(p, f, saveFails) ==
    /\ p \in DOMAIN files
    /\ LET written == update_metadata_safe(files[p], f, saveFails)
       IN  /\ files' = WriteFile(files, p, written.content)
           /\ last' = Op("update_track", 0, f, IF written.ok THEN 200 ELSE 500, None)
    /\ UNCHANGED <<items, scanQueue, config>>
    /\ UNCHANGED scanners

\* metadata_processor.read_metadata(p)
ReadTrack(p) ==
    /\ p \in DOMAIN files
    /\ last' = Op("read_metadata", 0, p, 0, read_metadata(files[p]))
    /\ UNCHANGED <<files, items, scanQueue, config>>
    /\ UNCHANGED scanners

NextCodec ==
    \/ \E f \in TrackFields, saveFails \in BOOLEAN : UpdateTrack(TrackPath, f, saveFails)
    \/ ReadTrack(TrackPath)

SpecCodec == InitCodec /\ [][NextCodec]_vars

\* Both writers on one file: update_metadata_safe as above, apply_metadata as
\* process_file calls it (the album is the title, the genre and the numbers
\* are those the file had, which may be absent, empty or zero).  The file is
\* untagged or fully tagged, in any container.
WriterContents ==
    {[BlankAudio(fmt, 0) EXCEPT !.art = a] : fmt \in Formats, a \in BOOLEAN}
    \cup {[fmt |-> fmt, title |-> <<"T">>, artist |-> <<"R">>, album |-> <<"L">>,
           album_artist |-> <<"R">>, genre |-> <<"G">>, year |-> 1999,
           track |-> [v |-> 3, t |-> 12], disc |-> [v |-> 1, t |-> NoneInt],
           art |-> a, ver |-> 0] : fmt \in Formats, a \in BOOLEAN}

\* A disc number comes with the track number, or neither is given.
DiscOf(n) == IF n = NoneInt THEN NoneInt ELSE 2

UpdateFields ==
    {[NoFields EXCEPT !.title = t, !.genre = g, !.year = y, !.track_number = n,
                      !.disc_number = DiscOf(n)] :
        t \in {None, <<" ", "N">>}, g \in {None, <<>>},
        y \in {NoneInt, 0, 2001, 12345}, n \in {NoneInt, 5}}

ApplyFields ==
    {[NoFields EXCEPT !.title = <<" ", "N">>, !.artist = <<"B">>,
                      !.album = <<" ", "N">>, !.genre = g, !.year = y,
                      !.track_number = n, !.disc_number = DiscOf(n)] :
        g \in {None, <<>>, <<"G">>}, y \in {NoneInt, 0, 2001, 12345},
        n \in {NoneInt, 5}}

InitWriters ==
    /\ \E c \in WriterContents : files = WriteFile(<< >>, TrackPath, c)
    /\ items = [i \in {} |-> 0]
    /\ scanQueue = {}
    /\ last = EnvStep
    /\ config = Config
    /\ ScannersInit

\* apply_metadata on file p.
ApplyTrack(p, f, saveFails) ==
    /\ p \in DOMAIN files
    /\ LET written == apply_metadata(files[p], f, saveFails)
       IN  /\ files' = WriteFile(files, p, written.content)
           /\ last' = Op("apply_track", 0, f, IF written.ok THEN 200 ELSE 500, None)
    /\ UNCHANGED <<items, scanQueue, config>>
    /\ UNCHANGED scanners

NextWriters ==
    \/ \E f \in UpdateFields, saveFails \in BOOLEAN : UpdateTrack(TrackPath, f, saveFails)
    \/ \E f \in ApplyFields, saveFails \in BOOLEAN : ApplyTrack(TrackPath, f, saveFails)

SpecWriters == InitWriters /\ [][NextWriters]_vars

\* ----------------------------------------------------- the library scan
\* Two files of the library, in the layout the mover produces and in an
\* artist/album layout.
LibraryPaths ==
    {TrackPath, Join(Join(Join(NAVIDROME_ROOT, <<"R">>), <<"L">>), <<"T", ".mp3">>)}

\* POST /api/library/rescan.  The handler does not await: no other handler
\* runs inside it, but the scan threads it starts run beside it.
Rescan(force) ==
    /\ library_scanner.is_scanning \/ Cardinality(DOMAIN threads) < MaxWorkers
    /\ LET r == rescan_library(library_scanner, threads, force)
       IN  /\ threads' = r.threads
           /\ last' = Op("rescan", 0, None, r.code, r.detail)
    /\ UNCHANGED <<files, items, scanQueue, config, file_scanner, library_scanner, tracks>>

\* _scan_library, line 46: the thread runs and sets the flag.
RunScan(t) ==
    /\ threads[t].pc = "started"
    /\ library_scanner' = [library_scanner EXCEPT !.is_scanning = TRUE]
    /\ threads' = [threads EXCEPT ![t].pc = "reset_total"]
    /\ last' = EnvStep
    /\ UNCHANGED <<files, items, scanQueue, config, file_scanner, tracks>>

\* _scan_library, lines 47-49: the three counters are reset one after the
\* other.
ResetCounters(t) ==
    /\ threads[t].pc \in {"reset_total", "reset_processed", "reset_errors"}
    /\ library_scanner' =
          IF threads[t].pc = "reset_total"
          THEN [library_scanner EXCEPT !.total_files = 0]
          ELSE IF threads[t].pc = "reset_processed"
          THEN [library_scanner EXCEPT !.processed_files = 0]
          ELSE [library_scanner EXCEPT !.errors = <<>>]
    /\ threads' = [threads EXCEPT ![t].pc =
                      IF @ = "reset_total" THEN "reset_processed"
                      ELSE IF @ = "reset_processed" THEN "reset_errors"
                      ELSE "list"]
    /\ last' = EnvStep
    /\ UNCHANGED <<files, items, scanQueue, config, file_scanner, tracks>>

\* _scan_library, lines 59-64: the listing of the library and its length.
ListLibrary(t) ==
    /\ threads[t].pc = "list"
    /\ threads' = [threads EXCEPT ![t].pc = "index", ![t].audio_files = Library(files)]
    /\ library_scanner' =
          [library_scanner EXCEPT !.total_files = Cardinality(Library(files))]
    /\ last' = EnvStep
    /\ UNCHANGED <<files, items, scanQueue, config, file_scanner, tracks>>

\* _scan_library, the for loop (lines 76-93): what is left of the listing
\* after audio_file, whether _index_file returned or raised.
_scan_library_rest(audio_files, audio_file, ok) == audio_files \ {audio_file}

\* _scan_library, one turn of the for loop: _index_file, then the counter or
\* the error list.
IndexFile(t, audio_file) ==
    /\ threads[t].pc = "index"
    /\ audio_file \in threads[t].audio_files
    /\ LET r == _index_file(files, tracks, audio_file, threads[t].force)
       IN  /\ files' = r.files
           /\ tracks' = r.tracks
           /\ library_scanner' =
                 IF r.ok
                 THEN [library_scanner EXCEPT !.processed_files = @ + 1]
                 ELSE [library_scanner EXCEPT !.errors = Append(@, audio_file)]
           /\ threads' = [threads EXCEPT ![t].audio_files =
                             _scan_library_rest(@, audio_file, r.ok)]
           /\ last' = Op("index", t, audio_file, IF r.ok THEN 200 ELSE 500, None)
    /\ UNCHANGED <<items, scanQueue, config, file_scanner>>

\* _scan_library, lines 95-97: after the loop, the rows of missing files go
\* unless the scan is a full one.
Cleanup(t) ==
    /\ threads[t].pc = "index"
    /\ threads[t].audio_files = {}
    /\ tracks' = IF threads[t].force THEN tracks
                 ELSE _cleanup_missing_files(files, tracks)
    /\ threads' = [threads EXCEPT ![t].pc = "finish"]
    /\ last' = EnvStep
    /\ UNCHANGED <<files, items, scanQueue, config, file_scanner, library_scanner>>

\* _scan_library, line 125: the flag is cleared and the thread ends.
FinishScan(t) ==
    /\ threads[t].pc = "finish"
    /\ library_scanner' = [library_scanner EXCEPT !.is_scanning = FALSE]
    /\ threads' = [u \in DOMAIN threads \ {t} |-> threads[u]]
    /\ last' = EnvStep
    /\ UNCHANGED <<files, items, scanQueue, config, file_scanner, tracks>>

\* Untagged MP3 files come into the library and leave it from outside,
\* rescans are asked for at any moment.
NextLibrary ==
    \/ \E q \in LibraryPaths :
          /\ q \notin DOMAIN files
          /\ ExternalWrite(q, BlankAudio("ID3", 0))
    \/ \E q \in LibraryPaths : ExternalRemove(q)
    \/ \E force \in BOOLEAN : Rescan(force)
    \/ \E t \in DOMAIN threads : RunScan(t)
    \/ \E t \in DOMAIN threads : ResetCounters(t)
    \/ \E t \in DOMAIN threads : ListLibrary(t)
    \/ \E t \in DOMAIN threads : \E audio_file \in threads[t].audio_files :
          IndexFile(t, audio_file)
    \/ \E t \in DOMAIN threads : Cleanup(t)
    \/ \E t \in DOMAIN threads : FinishScan(t)

SpecLibrary == Init /\ [][NextLibrary]_vars

\* The two scanners side by side under the shipped configuration: files come
\* and go in the intake directory and in the library while the intake loop
\* and one library scan at a time work through their listings.
NextPasses ==
    \/ \E p \in IntakePaths \cup LibraryPaths :
          /\ p \notin DOMAIN files
          /\ ExternalWrite(p, BlankAudio("ID3", 0))
    \/ \E p \in IntakePaths \cup LibraryPaths : ExternalRemove(p)
    \/ ScanDirectory
    \/ \E p \in IntakePaths, env \in {e \in ScanEnvs : e.uuid = "u1" /\ ~e.saveFails /\ e.gemini.raw = <<>>} :
          ProcessFile(p, env)
    \/ DOMAIN threads = {} /\ Rescan(FALSE)
    \/ \E t \in DOMAIN threads : RunScan(t)
    \/ \E t \in DOMAIN threads : ResetCounters(t)
    \/ \E t \in DOMAIN threads : ListLibrary(t)
    \/ \E t \in DOMAIN threads : \E audio_file \in threads[t].audio_files :
          IndexFile(t, audio_file)
    \/ \E t \in DOMAIN threads : Cleanup(t)
    \/ \E t \in DOMAIN threads : FinishScan(t)

SpecPasses == InitScan /\ [][NextPasses]_vars

\* ------------------------------------------------- the inference service
\* The lines a response is made of.
ResponseLines ==
    {Fence, JsonArray, JsonDeep, Gibberish,
     JsonObject(<<"A">>, <<"B">>), JsonObject(<<"A">>, None),
     JsonObject(None, <<"B">>), JsonObject(<<"A">>, <<>>),
     TitleLine(<<"A">>), TitleLine(<<>>), ArtistLine(<<"B">>), ArtistLine(<<>>)}

\* The response texts: every sequence of at most MaxLines lines.
Responses == UNION {[1..n -> ResponseLines] : n \in 0..MaxLines}

\* generate_content has returned a text.
InitInference ==
    /\ files = << >>
    /\ items = [i \in {} |-> 0]
    /\ scanQueue = {}
    /\ \E response_text \in Responses : last = Op("response", 0, response_text, 0, None)
    /\ config = Config
    /\ ScannersInit

\* infer_metadata parses the text and returns; code 500 stands for an
\* exception that left _parse_response.
InferMetadata ==
    /\ last.op = "response"
    /\ last' = Op("infer_metadata", 0, last.arg,
                  IF _parse_response(last.arg).raised THEN 500 ELSE 200,
                  infer_metadata(last.arg))
    /\ UNCHANGED <<files, items, scanQueue, config>>
    /\ UNCHANGED scanners

SpecInference == InitInference /\ [][InferMetadata]_vars

\* ----------------------------------------------------------------- claims
\* The process_file call of this step found the fingerprint of its file in
\* the table.
Resighted ==
    /\ last'.op = "process"
    /\ last'.arg \in DOMAIN files
    /\ get_item_by_identifier(items,
           compute_file_identifier(last'.arg, files[last'.arg])) # 0

OnePerFingerprint(db) ==
    \A i, j \in DOMAIN db :
        db[i].file_identifier = db[j].file_identifier => i = j

\* C1: after any sequence of process_file calls the table holds at most one
\* item per file fingerprint, and a process_file call on a file whose
\* fingerprint has an item changes neither the table nor any file (no record,
\* no staging directory is created).
C1_OneItemPerFingerprint ==
    [][/\ OnePerFingerprint(items')
       /\ Resighted => items' = items /\ files' = files]_vars

\* C1: an item exists and process_file has just run again on its file.
C1_Witness ==
    /\ last.op = "process"
    /\ last.arg \in DOMAIN files
    /\ \E i \in DOMAIN items :
          /\ items[i].file_identifier =
                compute_file_identifier(last.arg, files[last.arg])
          /\ items[i].updated_at > 0

\* C2: a step of the scanner, of update or of confirm leaves the intake
\* original of every item that is not done afterwards as it was: still there,
\* with the same content and stat.
C2_IntakeUntouchedUntilDone ==
    [][last'.op \in {"process", "update", "confirm"} =>
         \A i \in DOMAIN items \cap DOMAIN items' :
             (items'[i].status # "done" /\ items[i].original_path \in DOMAIN files)
             => /\ items[i].original_path \in DOMAIN files'
                /\ files'[items[i].original_path] = files[items[i].original_path]]_vars

\* The tags and picture of a file, whatever its stat.
Tags(c) == [c EXCEPT !.ver = 0]

\* C3: when update_metadata_safe reports failure, the file holds what it
\* held before the call.
C3_FailedWriteLeavesFile ==
    [][(last'.op = "update_track" /\ last'.code = 500) =>
         \A p \in DOMAIN files :
             p \in DOMAIN files' /\ Tags(files'[p]) = Tags(files[p])]_vars

\* The fields confirm_item writes for an item.
ConfirmedFields(item) ==
    [NoFields EXCEPT !.title = Strip(item.current_title),
                     !.artist = Strip(item.current_artist),
                     !.album = Strip(item.current_title),
                     !.album_artist = Strip(item.current_artist),
                     !.genre = Strip(item.genre)]

\* Item i is done after this step and was not before.
BecomesDone(i) ==
    /\ i \in DOMAIN items'
    /\ items'[i].status = "done"
    /\ i \in DOMAIN items => items[i].status # "done"

\* C4: an item becomes done only in a confirm of that item that answers
\* success, issued while its status was pending, error or needs_manual, after
\* which the file at the new current_path passes the verification of the
\* written fields and current_path is the destination the mover computed, a
\* free name in the library; a confirm on a done item is rejected and changes
\* nothing; and a done item keeps its status and its current_path in every
\* other step.
C4_DoneOnlyByConfirm ==
    [][/\ \A i \in DOMAIN items' :
            BecomesDone(i) =>
              /\ last'.op = "confirm" /\ last'.id = i /\ last'.code = 200
              /\ i \in DOMAIN items
              /\ items[i].status \in Confirmable
              /\ items'[i].current_path =
                    build_destination_path(files, Strip(items[i].current_artist),
                        Strip(items[i].current_title), items[i].extension)
              /\ items'[i].current_path \notin DOMAIN files
              /\ items'[i].current_path \in Library(files')
              /\ _verify_written_metadata(files'[items'[i].current_path],
                                          ConfirmedFields(items[i]))
       /\ \A i \in DOMAIN items :
            items[i].status = "done" =>
              /\ (last'.op = "confirm" /\ last'.id = i) =>
                    /\ last'.code = 400 /\ last'.detail = CannotConfirm
                    /\ items' = items
                    /\ files' = files
              /\ i \in DOMAIN items' =>
                    /\ items'[i].status = "done"
                    /\ items'[i].current_path = items[i].current_path]_vars

\* C4: an item is done and a confirm on it has just been rejected.
C4_Witness ==
    /\ last.op = "confirm" /\ last.code = 400 /\ last.detail = CannotConfirm
    /\ last.id \in DOMAIN items
    /\ items[last.id].status = "done"
    /\ items[last.id].current_path \in Library(files)

\* This step is a confirm of an existing item that passed the checks of
\* status and required fields and did not answer success.
ConfirmFailed ==
    /\ last'.op = "confirm"
    /\ last'.id \in DOMAIN items
    /\ ConfirmRejection(items[last'.id]) = None
    /\ last'.code # 200

\* C5: after a confirm that passed the validation and failed, the item's
\* status is error and its error message is not empty.
C5_FailedConfirmRecordsError ==
    [][ConfirmFailed =>
         /\ items'[last'.id].status = "error"
         /\ Truthy(items'[last'.id].error_message)]_vars

\* C6: after a confirm that found the item's file and its intake original
\* and failed, both the file at current_path and the intake original still
\* exist (so that the confirm can be repeated).
C6_FailedConfirmKeepsFiles ==
    [][(/\ ConfirmFailed
        /\ items[last'.id].current_path \in DOMAIN files
        /\ items[last'.id].original_path \in DOMAIN files)
       => /\ items'[last'.id].current_path \in DOMAIN files'
          /\ items'[last'.id].original_path \in DOMAIN files']_vars

\* C7: of two confirm requests on the same item handled one after the other
\* (the handlers do not interleave), at most one answers success; after a
\* success the second is rejected and changes no file and no record, and
\* when the first has moved the file away the second adds no library file.
C7_OneConfirmWins ==
    [][(/\ last.op = "confirm"
        /\ last'.op = "confirm"
        /\ last'.id = last.id
        /\ last.id \in DOMAIN items)
       => /\ ~(last.code = 200 /\ last'.code = 200)
          /\ last.code = 200 =>
                /\ last'.code = 400
                /\ files' = files
                /\ items' = items
          /\ items[last.id].current_path \notin DOMAIN files =>
                Library(files') = Library(files)]_vars

\* C7: a confirm has answered success and a second confirm of the same item,
\* handled right after it, has been rejected.
C7_Witness ==
    /\ last.op = "confirm"
    /\ last.arg = <<ToString(last.id), "200">>
    /\ last.code = 400
    /\ last.id \in DOMAIN items
    /\ items[last.id].status = "done"
    /\ Cardinality(Library(files)) = 1

\* The name build_destination_path gives the n-th file of an item's title
\* and artist.
LibraryName(item, n) ==
    Join(AlbumDir(Strip(item.current_artist)),
         DestFilename(sanitize_filename(Strip(item.current_title)), n, item.extension))

\* C8: a confirm, whatever it answers, leaves every file of the library in
\* place with its content; the file it moves goes to a name that was free,
\* the plain name when that was free and else the name with the least
\* " (n)", n >= 1, that was free (so " (1)" for the second file of a title).
C8_NeverOverwrites ==
    [][last'.op = "confirm" =>
         /\ \A q \in Library(files) : q \in DOMAIN files' /\ files'[q] = files[q]
         /\ last'.code = 200 =>
               LET item == items[last'.id]
                   dest == items'[last'.id].current_path
               IN  /\ dest \notin DOMAIN files
                   /\ Library(files') = Library(files) \cup {dest}
                   /\ \E n \in 0..Cardinality(Library(files)) :
                         /\ dest = LibraryName(item, n)
                         /\ \A k \in 0..(n - 1) : LibraryName(item, k) \in DOMAIN files]_vars

\* C8: two different items with the same title, artist and extension were
\* confirmed one right after the other; the first holds the plain name, the
\* second the name suffixed " (1)".
C8_Witness ==
    /\ last.op = "confirm" /\ last.code = 200
    /\ last.arg \in {<<ToString(i), "200">> : i \in DOMAIN items \ {last.id}}
    /\ \E i \in DOMAIN items \ {last.id} :
          /\ items[i].status = "done"
          /\ items[i].current_path = LibraryName(items[i], 0)
          /\ items[last.id].current_path = LibraryName(items[i], 1)
          /\ {items[i].current_path, items[last.id].current_path} \subseteq DOMAIN files

\* A text that is missing or empty once trimmed.
Blank(x) == x = None \/ Strip(x) = <<>>

\* A genre that is the reserved one or too long, once trimmed.
BadGenre(x) == x # None /\ (Strip(x) = OtherGenre \/ Len(Strip(x)) > MaxGenreLen)

\* A text that is too long for a title or an artist, once trimmed.
TooLong(x) == x # None /\ Len(Strip(x)) > MaxTitleLen

\* C9: an update with a title or artist over 300 characters or a genre that
\* is the reserved one or over 200 characters (whatever its other fields),
\* and a confirm of an item that is not done whose title, artist or genre is
\* empty or whose genre is the reserved one or over 200 characters, are
\* answered 400 and change no record and no file.
C9_RejectionChangesNothing ==
    [][/\ (/\ last'.op = "update"
           /\ TooLong(last'.arg.title) \/ TooLong(last'.arg.artist)
              \/ BadGenre(last'.arg.genre))
          => last'.code = 400 /\ items' = items /\ files' = files
       /\ (/\ last'.op = "confirm"
           /\ last'.id \in DOMAIN items
           /\ items[last'.id].status # "done"
           /\ LET item == items[last'.id]
              IN  Blank(item.current_title) \/ Blank(item.current_artist)
                  \/ Blank(item.genre) \/ BadGenre(item.genre))
          => last'.code = 400 /\ items' = items /\ files' = files]_vars

\* C9: an update that carried a valid title and artist and a genre that is
\* too long has been rejected for an item that exists.
C9_Witness ==
    /\ last.op = "update"
    /\ last.arg = Request(NewTitle, NewArtist, LongGenre)
    /\ last.code = 400
    /\ last.id \in DOMAIN items
    /\ items[last.id].current_title = None

\* The answer "title: A / artist: B" of the inference service.
AnswerAB == CHOOSE g \in GeminiAnswers : g.title = <<"A">> /\ g.artist = <<"B">>

\* C10: a new untagged intake file for which the service answers title A and
\* artist B becomes a pending item with those inferred values; and when a
\* confirm of a pending item with inferred title A and artist B and a genre
\* succeeds, the file is at root/sanitize(B)/sanitize(album)/sanitize(A) +
\* extension (that name being free), the item is done, the intake original is
\* gone and no file is left in the item's staging directory.
C10_ScenarioB ==
    [][/\ (/\ last'.op = "process"
           /\ last'.detail = AnswerAB.raw
           /\ DOMAIN items' # DOMAIN items)
          => \A i \in DOMAIN items' \ DOMAIN items :
                /\ items'[i].status = "pending"
                /\ items'[i].inferred_title = <<"A">>
                /\ items'[i].inferred_artist = <<"B">>
       /\ (/\ last'.op = "confirm" /\ last'.code = 200
           /\ items[last'.id].status = "pending"
           /\ items[last'.id].current_title = <<"A">>
           /\ items[last'.id].current_artist = <<"B">>
           /\ LibraryName(items[last'.id], 0) \notin DOMAIN files)
          => LET item == items[last'.id]
                 dest == Join(Join(Join(NAVIDROME_ROOT, sanitize_filename(<<"B">>)),
                                   sanitize_filename(ALBUM_NAME)),
                              sanitize_filename(<<"A">>) \o <<item.extension>>)
             IN  /\ dest \in DOMAIN files'
                 /\ items'[last'.id].status = "done"
                 /\ items'[last'.id].current_path = dest
                 /\ item.original_path \notin DOMAIN files'
                 /\ \A q \in DOMAIN files' :
                       ~is_relative_to(q, Parent(item.current_path) \o <<"/">>)]_vars

\* C11: a dry run changes no file and no record, and the destination it
\* reports is the path a confirm of the same item issued in the same state
\* moves the file to, when that confirm succeeds.
C11_DryRunPreviewsConfirm ==
    [][last'.op = "dry_run" =>
         /\ files' = files
         /\ items' = items
         /\ last'.id \in DOMAIN items =>
               LET r == confirm_item(config, files, items, last'.id, NoFault)
               IN  r.code = 200 =>
                     /\ last'.detail = r.new_path
                     /\ r.new_path \in DOMAIN r.files
                     /\ r.items[last'.id].current_path = last'.detail]_vars

\* C11: a dry run has answered for an item that a confirm would move, at a
\* moment when the plain name of its title is taken in the library: it
\* reports the name suffixed " (1)".
C11_Witness ==
    /\ last.op = "dry_run" /\ last.code = 200
    /\ last.id \in DOMAIN items
    /\ confirm_item(config, files, items, last.id, NoFault).code = 200
    /\ LibraryName(items[last.id], 0) \in DOMAIN files
    /\ last.detail = LibraryName(items[last.id], 1)

\* C12: when process_file runs on an intake path that has an item under
\* another fingerprint (the file's size or modification time changed since),
\* it creates a new item with the new fingerprint for that path.
C12_ChangedFileIsNew ==
    [][(/\ last'.op = "process"
        /\ last'.arg \in DOMAIN files
        /\ file_already_processed(items, last'.arg)
        /\ get_item_by_identifier(items,
               compute_file_identifier(last'.arg, files[last'.arg])) = 0)
       => \E i \in DOMAIN items' \ DOMAIN items :
             /\ items'[i].original_path = last'.arg
             /\ items'[i].file_identifier =
                   compute_file_identifier(last'.arg, files[last'.arg])]_vars

\* What the inference service answered in the process_file call of this step.
Answered == CHOOSE g \in GeminiAnswers : g.raw = last'.detail

\* The title and the artist process_file has after the embedded tags of file
\* c and the answer g of the service.
Resolved(c, g) ==
    [title |-> OrElse(StripOrNone(read_metadata(c).title), StripOrNone(g.title)),
     artist |-> OrElse(StripOrNone(read_metadata(c).artist), StripOrNone(g.artist))]

\* C13: when process_file has consulted the inference service and the title
\* or the artist is still empty, the item it creates is in needs_manual with
\* an error message, the unresolved inferred fields are empty, and the intake
\* file is as before.
C13_UnresolvedLeftEmpty ==
    [][(/\ last'.op = "process"
        /\ last'.code = 1
        /\ \/ ~Truthy(Resolved(files[last'.arg], Answered).title)
           \/ ~Truthy(Resolved(files[last'.arg], Answered).artist))
       => /\ last'.arg \in DOMAIN files' /\ files'[last'.arg] = files[last'.arg]
          /\ DOMAIN items' # DOMAIN items
          /\ \A i \in DOMAIN items' \ DOMAIN items :
                /\ items'[i].status = "needs_manual"
                /\ Truthy(items'[i].error_message)
                /\ ~Truthy(Resolved(files[last'.arg], Answered).title)
                      => ~Truthy(items'[i].inferred_title)
                /\ ~Truthy(Resolved(files[last'.arg], Answered).artist)
                      => ~Truthy(items'[i].inferred_artist)]_vars

\* The fields an update may change.
Editable == {"current_title", "current_artist", "genre", "updated_at"}

\* C20: an update that is accepted changes, in the item it names, the
\* current title, the current artist and the genre that the request carries
\* (to the trimmed value) and the updated timestamp, and nothing else: the
\* fields not carried, the status, the error message, the inferred values,
\* the paths, the other items and all files are as before.
C20_UpdateChangesOnlySupplied ==
    [][(last'.op = "update" /\ last'.code = 200) =>
         LET id == last'.id
             req == last'.arg
         IN  /\ files' = files
             /\ DOMAIN items' = DOMAIN items
             /\ \A i \in DOMAIN items \ {id} : items'[i] = items[i]
             /\ \A k \in DOMAIN items[id] \ Editable : items'[id][k] = items[id][k]
             /\ items'[id].current_title =
                   IF req.title = None THEN items[id].current_title ELSE Strip(req.title)
             /\ items'[id].current_artist =
                   IF req.artist = None THEN items[id].current_artist ELSE Strip(req.artist)
             /\ items'[id].genre =
                   IF req.genre = None THEN items[id].genre ELSE Strip(req.genre)
             /\ items'[id].updated_at > items[id].updated_at]_vars

\* C20: an update that carried only a title has been accepted for an item in
\* error, which is still in error, with its message, and has no artist.
C20_Witness ==
    /\ last.op = "update" /\ last.code = 200
    /\ last.arg = Request(NewTitle, None, None)
    /\ items[last.id].status = "error"
    /\ Truthy(items[last.id].error_message)
    /\ items[last.id].current_title = Strip(NewTitle)
    /\ items[last.id].current_artist = None
    /\ items[last.id].original_path \in DOMAIN files

\* The item that the process_file call of this step created.
Created == CHOOSE i \in DOMAIN items' \ DOMAIN items : TRUE

C16_InferenceCallCutOff == file_scanner.calling = None

\* C19: a delete of an existing item answers success and removes its record,
\* whether or not an unlink fails, and leaves the other records alone; when
\* no unlink fails, the file at current_path, the intake original and the
\* extracted cover do not exist afterwards.
C19_DeleteRemovesRecord ==
    [][(last'.op = "delete" /\ last'.id \in DOMAIN items) =>
         LET item == items[last'.id]
         IN  /\ last'.code = 200
             /\ DOMAIN items' = DOMAIN items \ {last'.id}
             /\ \A i \in DOMAIN items' : items'[i] = items[i]
             /\ last'.arg = None =>
                   /\ item.current_path \notin DOMAIN files'
                   /\ item.original_path \notin DOMAIN files'
                   /\ Truthy(item.artwork_path) => item.artwork_path \notin DOMAIN files']_vars

\* C19: a delete during which an unlink failed has removed the only record,
\* while the intake file, a staged copy and an extracted cover are still
\* there.
C19_Witness ==
    /\ last.op = "delete" /\ last.code = 200
    /\ last.arg = <<"unlink fails">>
    /\ DOMAIN items = {}
    /\ FirstPath \in DOMAIN files
    /\ \E q \in DOMAIN files : is_relative_to(q, TestedConfig.STAGING_DIR \o <<"/">>)
    /\ \E q \in DOMAIN files : is_relative_to(q, ARTWORK_DIR \o <<"/">>)

\* C17: at most one library scan thread is alive at any time, and a rescan
\* asked for while one is alive is rejected and starts no thread.
C17_OneLibraryScan ==
    [][/\ Cardinality(DOMAIN threads') <= 1
       /\ (last'.op = "rescan" /\ DOMAIN threads # {})
             => last'.code = 409 /\ threads' = threads]_vars

C15_ParsingDegrades ==
    last.op = "infer_metadata" =>
        LET response_text == last.arg
            out == last.detail
        IN  /\ last.code = 200
            /\ out.raw_response = response_text
            /\ (out.error_message = None) = (Truthy(out.title) /\ Truthy(out.artist))
            /\ response_text \in {<<JsonObject(<<"A">>, <<"B">>)>>,
                                  <<Fence, JsonObject(<<"A">>, <<"B">>), Fence>>,
                                  <<TitleLine(<<"A">>), ArtistLine(<<"B">>)>>}
                  => out.title = <<"A">> /\ out.artist = <<"B">>

\* C21: in the step that makes an item done, the item holds a title and an
\* artist that are non-empty once trimmed, and a genre that, trimmed, is
\* non-empty, is not the reserved one and has at most MaxGenreLen characters.
C21_DoneHadRequiredFields ==
    [][\A id \in DOMAIN items' :
          (items'[id].status = "done"
             /\ (id \notin DOMAIN items \/ items[id].status # "done"))
          => /\ id \in DOMAIN items
             /\ last'.op = "confirm" /\ last'.id = id
             /\ Truthy(items[id].current_title) /\ Strip(items[id].current_title) # <<>>
             /\ Truthy(items[id].current_artist) /\ Strip(items[id].current_artist) # <<>>
             /\ Truthy(items[id].genre) /\ Strip(items[id].genre) # <<>>
             /\ Strip(items[id].genre) # OtherGenre
             /\ Len(Strip(items[id].genre)) <= MaxGenreLen]_vars

\* A confirm has just made an item done, and the item carries the three
\* fields the operator sent.
C21_Witness ==
    /\ last.op = "confirm"
    /\ last.code = 200
    /\ last.id \in DOMAIN items
    /\ items[last.id].status = "done"
    /\ items[last.id].current_title = Strip(NewTitle)
    /\ items[last.id].current_artist = Strip(NewArtist)
    /\ items[last.id].genre = Strip(NewGenre)

\* What a write was asked to store: the arguments of update_metadata_safe,
\* and for apply_metadata its arguments with the artist as album artist.
Supplied ==
    IF last.op = "apply_track"
    THEN [last.arg EXCEPT !.album_artist = last.arg.artist]
    ELSE last.arg

\* C22: after a write that reported success on a file of a supported
\* family, read_metadata returns every supplied field as written, texts
\* compared trimmed (an absent tag reading as the empty text) and numbers as
\* integers; so a write whose re-read differs has reported failure.
C22_SuccessMeansReadBack ==
    (last.op \in {"update_track", "apply_track"} /\ last.code = 200
       /\ files[TrackPath].fmt \in Families)
    => LET actual == read_metadata(files[TrackPath])
       IN  /\ \A k \in {"title", "artist", "album", "album_artist", "genre"} :
                Supplied[k] # None => TextOrEmpty(actual[k]) = Strip(Supplied[k])
           /\ \A k \in {"year", "track_number", "disc_number"} :
                Supplied[k] # NoneInt => actual[k] = Supplied[k]

\* Each writer has reported success on an MP4 file after storing a padded
\* title, a year and a track number.
C22_Witness ==
    /\ last.op \in {"update_track", "apply_track"}
    /\ last.code = 200
    /\ last.arg.title = <<" ", "N">> /\ last.arg.year = 2001 /\ last.arg.track_number = 5
    /\ files[TrackPath].fmt = "MP4"
    /\ files[TrackPath].track = [v |-> 5, t |-> 12]
    /\ files[TrackPath].album = IF last.op = "apply_track" THEN <<" ", "N">> ELSE <<"L">>

\* C23: a successful update_metadata_safe leaves every field it was not
\* given as read_metadata returned it before the call, the presence of a
\* cover included, whatever the container.
C23_UpdateLeavesOtherFields ==
    [][(last'.op = "update_track" /\ last'.code = 200)
       => LET before == read_metadata(files[TrackPath])
              after == read_metadata(files'[TrackPath])
          IN  /\ \A k \in {"title", "artist", "album", "album_artist", "genre"} :
                   last'.arg[k] = None => after[k] = before[k]
              /\ \A k \in {"year", "track_number", "disc_number"} :
                   last'.arg[k] = NoneInt => after[k] = before[k]
              /\ after.has_artwork = before.has_artwork]_vars

\* A successful update of the title and the year alone on a fully tagged
\* file with a cover.
C23_Witness ==
    /\ last.op = "update_track"
    /\ last.code = 200
    /\ last.arg = [NoFields EXCEPT !.title = <<" ", "N">>, !.year = 2001]
    /\ read_metadata(files[TrackPath]) =
          [title |-> <<" ", "N">>, artist |-> <<"R">>, album |-> <<"L">>,
           album_artist |-> <<"R">>, genre |-> <<"G">>, year |-> 2001,
           track_number |-> 3, disc_number |-> 1, has_artwork |-> TRUE]
    /\ files[TrackPath].track = [v |-> 3, t |-> 12]

\* C24: a confirm during which the embedding of the cover fails ends as the
\* same confirm would with the embedding succeeding: the same answer and the
\* same row, the file at the same place; when the tag write and the move
\* succeed the item is done and its file is in the library with the new
\* tags.
C24_CoverIsBestEffort ==
    [][(/\ last'.op = "confirm"
        /\ last'.arg \in CoverFaults
        /\ last'.arg.art
        /\ last'.id \in DOMAIN items
        /\ Truthy(items[last'.id].artwork_path)
        /\ items[last'.id].artwork_path \in DOMAIN files)
       => LET id == last'.id
              r == confirm_item(config, files, items, id, [last'.arg EXCEPT !.art = FALSE])
          IN  /\ last'.code = r.code
              /\ items' = r.items
              /\ DOMAIN files' = DOMAIN r.files
              /\ (ConfirmRejection(items[id]) = None
                    /\ items[id].current_path \in DOMAIN files
                    /\ ~last'.arg.save /\ ~last'.arg.move)
                  => /\ last'.code = 200
                     /\ items'[id].status = "done"
                     /\ items'[id].current_path \in Library(files')
                     /\ read_metadata(files'[items'[id].current_path]).genre
                          = Strip(items[id].genre)]_vars

\* A confirm whose embedding failed has made an item done while its cover
\* lay in the artwork cache.
C24_Witness ==
    /\ last.op = "confirm"
    /\ last.arg \in CoverFaults
    /\ last.arg.art
    /\ last.code = 200
    /\ items[last.id].status = "done"
    /\ Truthy(items[last.id].artwork_path)
    /\ items[last.id].current_path \in Library(files)

\* C25: what sanitize_filename returns is never empty, holds none of the
\* nine illegal characters and neither begins nor ends with a dot or a
\* space; a name made only of illegal characters, dots and spaces (the empty
\* name included) gives the placeholder.
C25_SanitizedName ==
    last.op = "sanitize_filename" =>
        LET filename == last.arg
            sanitized == last.detail
        IN  /\ sanitized # <<>>
            /\ \A i \in 1..Len(sanitized) : sanitized[i] \notin IllegalChars
            /\ sanitized[1] \notin {".", " "}
            /\ sanitized[Len(sanitized)] \notin {".", " "}
            /\ (\A i \in 1..Len(filename) : filename[i] \in IllegalChars \cup {".", " "})
                  => sanitized = Untitled

\* A name with an illegal character between a leading dot and a letter has
\* been sanitized to the letter.
C25_Witness ==
    /\ last.op = "sanitize_filename"
    /\ last.arg = <<".", "/", "a">>
    /\ last.detail = <<"a">>

\* C26: the configuration has a staging root; the intake root, the staging
\* root, the library root and the artwork cache are four directories; every
\* item that is not done has its file in a subdirectory of the staging root,
\* and no two items have the same current path.
C26_StagingRootConfigured ==
    /\ config.STAGING_DIR # None
    /\ Cardinality({INCOMING_ROOT, config.STAGING_DIR, NAVIDROME_ROOT, ARTWORK_DIR}) = 4
    /\ \A i \in DOMAIN items :
          items[i].status # "done"
             => /\ is_relative_to(items[i].current_path, config.STAGING_DIR \o <<"/">>)
                /\ Parent(Parent(items[i].current_path)) = config.STAGING_DIR
    /\ \A i, j \in DOMAIN items :
          i # j => items[i].current_path # items[j].current_path

\* C27: the ranking holds each name once; each row stands before the next
\* by a higher score, or at the same score by more tracks, or at the same
\* number of tracks by a shorter name, or at the same length by the name that
\* is lexically smaller; and it has at most max(1, limit) rows.
C27_RankingOrder ==
    last.op = "rank_artist_candidates" =>
        LET ranked == last.detail.ranked
        IN  /\ \A i, j \in 1..Len(ranked) : i # j => ranked[i].name # ranked[j].name
            /\ Len(ranked) <= Max2(1, last.id)
            /\ \A i \in 1..(Len(ranked) - 1) :
                  LET r == ranked[i]
                      q == ranked[i + 1]
                  IN  \/ r.score > q.score
                      \/ r.score = q.score /\ r.track_count > q.track_count
                      \/ /\ r.score = q.score /\ r.track_count = q.track_count
                         /\ Len(r.name) < Len(q.name)
                      \/ /\ r.score = q.score /\ r.track_count = q.track_count
                         /\ Len(r.name) = Len(q.name) /\ StrLess(r.name, q.name)

\* C28: the similarity of a non-empty artist string with itself is 100.
C28_SelfSimilarity ==
    (last.op = "score_artist_similarity" /\ last.arg # <<>>) => last.code = 10000

\* C29: at most one thread runs scan_loop at any time, whatever the calls of
\* start and stop, a start after a stop whose join timed out included.
C29_OneScanLoop ==
    Cardinality({t \in DOMAIN threads : threads[t].target = "scan_loop"}) <= 1

\* C30: when process_file has consulted the inference service and the
\* service supplied only one of title and artist, the item created has the
\* field the service supplied, and has the file's embedded value in the
\* other field if that value is not empty.
C30_SuppliedFieldKept ==
    [][(/\ last'.op = "process"
        /\ last'.code = 1
        /\ Truthy(Answered.title) # Truthy(Answered.artist))
       => \A i \in DOMAIN items' \ DOMAIN items :
             LET embedded == read_metadata(files[last'.arg])
             IN  /\ Truthy(Answered.title)
                      => items'[i].inferred_title = Strip(Answered.title)
                 /\ Truthy(Answered.artist)
                      => items'[i].inferred_artist = Strip(Answered.artist)
                 /\ (~Truthy(Answered.title) /\ Truthy(embedded.title))
                      => items'[i].inferred_title = embedded.title
                 /\ (~Truthy(Answered.artist) /\ Truthy(embedded.artist))
                      => items'[i].inferred_artist = embedded.artist]_vars

\* C31: when the inference service returns both a title and an artist,
\* process_file, for a file whose name has the title and channel hints, calls
\* the service once and records the service's title and artist as the
\* inferred ones, whether or not the file has an embedded title and artist.
C31_ServicePreferred ==
    [][(/\ last'.op = "process"
        /\ last'.arg \in DOMAIN files
        /\ parse_filename(Name(last'.arg)) # None
        /\ Answered = AnswerAB)
       => \A i \in DOMAIN items' \ DOMAIN items :
             items'[i].status # "error"
                => /\ last'.code = 1
                   /\ items'[i].inferred_title = AnswerAB.title
                   /\ items'[i].inferred_artist = AnswerAB.artist]_vars

\* C33: read_metadata of a file whose stored track or disc number is a
\* composite "value/total" returns the value as the track or disc number, in
\* each of the families ID3, MP4, FLAC and OGG.
C33_LeadingInteger ==
    (last.op = "read_metadata" /\ files[last.arg].fmt \in Families) =>
        /\ files[last.arg].track.t # NoneInt
              => last.detail.track_number = files[last.arg].track.v
        /\ files[last.arg].disc.t # NoneInt
              => last.detail.disc_number = files[last.arg].disc.v

C35_DoneIsImmutable ==
    [][\A i \in DOMAIN items \cap DOMAIN items' :
          items[i].status = "done"
             => /\ items'[i].status = "done"
                /\ items'[i].current_title = items[i].current_title
                /\ items'[i].current_artist = items[i].current_artist
                /\ items'[i].genre = items[i].genre
                /\ items'[i].current_path = items[i].current_path]_vars

\* C36: a delete removes no file of the library tree: every file that is in
\* the library before a delete, the file of a done item included, is there
\* after it.
C36_DeleteSparesLibrary ==
    [][last'.op = "delete" => Library(files) \subseteq Library(files')]_vars

\* C37: every item that a scanner step creates in pending, needs_manual or
\* error, on whatever path of process_file, has a file at its current_path,
\* and a scanner step or an update leaves the file of every such item in
\* place: while no confirm or delete is issued the item can be confirmed.
C37_CurrentPathExists ==
    [][last'.op \in {"process", "update"}
       => \A i \in DOMAIN items' :
             (/\ items'[i].status \in {"pending", "needs_manual", "error"}
              /\ i \in DOMAIN items => items[i].current_path \in DOMAIN files)
                => items'[i].current_path \in DOMAIN files']_vars

\* C38: when dry_run has answered can_confirm = true for an item, the item
\* passes every check confirm makes before it writes: its status is pending,
\* error or needs_manual, its title, artist and genre pass the rules, and the
\* file at its current_path exists.
C38_DryRunAgreesWithConfirm ==
    (last.op = "dry_run" /\ last.arg = <<"can_confirm">>)
       => /\ items[last.id].status \in Confirmable
          /\ ConfirmRejection(items[last.id]) = None
          /\ items[last.id].current_path \in DOMAIN files

\* C39: at every moment the counters that get_status returns satisfy
\* processed <= total, also while a new scan resets the counters of the
\* scan before and while the thread indexes files.
C39_ProcessedAtMostTotal ==
    library_scanner.processed_files <= library_scanner.total_files

\* C32: process_file on a new intake file whose name has not the shape
\* "title###channel" creates an item that is in needs_manual, not in error,
\* and whose current_path is a staged copy that exists; and a confirm that
\* succeeds on an item in needs_manual, after the edit of its title, artist
\* and genre, leaves it done.
C32_UnparsedNameIsRecoverable ==
    [][/\ (/\ last'.op = "process"
           /\ last'.arg \in DOMAIN files
           /\ parse_filename(Name(last'.arg)) = None
           /\ get_item_by_identifier(items,
                  compute_file_identifier(last'.arg, files[last'.arg])) = 0
           /\ ~file_already_processed(items, last'.arg))
          => \E i \in DOMAIN items' \ DOMAIN items :
                /\ items'[i].status = "needs_manual"
                /\ items'[i].current_path # last'.arg
                /\ items'[i].current_path \in DOMAIN files'
       /\ (/\ last'.op = "confirm" /\ last'.code = 200
           /\ last'.id \in DOMAIN items
           /\ items[last'.id].status = "needs_manual")
          => items'[last'.id].status = "done"]_vars

====
